---- MODULE Spec2Model ----
(***************************************************************************)
(* Propositional-logic engine of LogicEducation: formula model, parser,   *)
(* evaluator, analyzer, normal-form transformer and grading dispatcher.   *)
(*                                                                         *)
(* A JavaScript string is modelled as a sequence of one-character strings.*)
(* Characters outside ASCII are written by code point:                    *)
(*   "u00AC" NOT SIGN, "u2227" LOGICAL AND, "u2228" LOGICAL OR,           *)
(*   "u2192" RIGHTWARDS ARROW, "u2194" LEFT RIGHT ARROW.                  *)
(* Character offsets are 0-based as in the source: the character at       *)
(* offset i of a string s is s[i + 1].                                    *)
(***************************************************************************)
EXTENDS Integers, Sequences, FiniteSets

VARIABLES
    typed,      \* engine: the text handed to the parser
    formula,    \* engine: the Formula under analysis
    out,        \* engine: the last operation applied and what it returned
    exercise,   \* grader: the ExerciseData handed to gradeSubmission
    answer,     \* grader: the studentAnswer handed to gradeSubmission
    result,     \* grader: what the call produced
    parser      \* a LogicParser instance that is kept between calls

vars == <<typed, formula, out, exercise, answer, result, parser>>

(* Bounds of the model *)

\* every formula text with at most this many connectives (NOT and binary) is an
\* input; SampleTexts adds larger ones
MaxConnectives == 2

(* Formula model: types.ts *)

Connective == {"AND", "OR", "IMPLIES", "IFF"}

Atom(name) == [type |-> "ATOM", value |-> name]
Not(f) == [type |-> "NOT", operand |-> f]
Binary(o, l, r) == [type |-> "BINARY", operator |-> o, left |-> l, right |-> r]

(* Evaluator: getVariables, evaluate, generateTruthTable *)

RECURSIVE getVariables(_)
getVariables(f) ==
    CASE f.type = "ATOM" -> {f.value}
      [] f.type = "NOT" -> getVariables(f.operand)
      [] f.type = "BINARY" -> getVariables(f.left) \cup getVariables(f.right)

\* the property names an object literal inherits from Object.prototype that are
\* spelled like an atom (a letter, then letters, digits or underscores); each
\* holds a function
InheritedNames ==
    { <<"c", "o", "n", "s", "t", "r", "u", "c", "t", "o", "r">>,
      <<"t", "o", "S", "t", "r", "i", "n", "g">>,
      <<"v", "a", "l", "u", "e", "O", "f">>,
      <<"h", "a", "s", "O", "w", "n", "P", "r", "o", "p", "e", "r", "t", "y">>,
      <<"i", "s", "P", "r", "o", "t", "o", "t", "y", "p", "e", "O", "f">>,
      <<"p", "r", "o", "p", "e", "r", "t", "y", "I", "s", "E", "n", "u", "m", "e", "r", "a", "b", "l", "e">>,
      <<"t", "o", "L", "o", "c", "a", "l", "e", "S", "t", "r", "i", "n", "g">> }

\* !!assignment[name]: the object's own value for the key; for a key it does
\* not hold, the inherited function (truthy) or undefined (falsy)
Lookup(assignment, name) ==
    IF name \in DOMAIN assignment THEN assignment[name] ELSE name \in InheritedNames

applyOperator(o, left, right) ==
    CASE o = "AND" -> left /\ right
      [] o = "OR" -> left \/ right
      [] o = "IMPLIES" -> (~left) \/ right
      [] o = "IFF" -> left = right

RECURSIVE evaluate(_, _)
evaluate(f, assignment) ==
    CASE f.type = "ATOM" -> Lookup(assignment, f.value)
      [] f.type = "NOT" -> ~evaluate(f.operand, assignment)
      [] f.type = "BINARY" ->
            applyOperator(f.operator, evaluate(f.left, assignment),
                          evaluate(f.right, assignment))


\* UTF-16 order of the characters an atom name is made of: Array.prototype.sort
\* without a comparator orders strings by code unit
NameChars ==
    <<"0", "1", "2", "3", "4", "5", "6", "7", "8", "9",
      "A", "B", "C", "D", "E", "F", "G", "H", "I", "J", "K", "L", "M",
      "N", "O", "P", "Q", "R", "S", "T", "U", "V", "W", "X", "Y", "Z",
      "_",
      "a", "b", "c", "d", "e", "f", "g", "h", "i", "j", "k", "l", "m",
      "n", "o", "p", "q", "r", "s", "t", "u", "v", "w", "x", "y", "z">>

CharCode(c) == CHOOSE i \in 1..Len(NameChars) : NameChars[i] = c

RECURSIVE StringLess(_, _)
StringLess(a, b) ==
    IF a = <<>> THEN b # <<>>
    ELSE IF b = <<>> THEN FALSE
    ELSE IF Head(a) = Head(b) THEN StringLess(Tail(a), Tail(b))
    ELSE CharCode(Head(a)) < CharCode(Head(b))

RECURSIVE SortNames(_)
SortNames(S) ==
    IF S = {} THEN <<>>
    ELSE LET least == CHOOSE x \in S : \A y \in S \ {x} : StringLess(x, y)
         IN <<least>> \o SortNames(S \ {least})

RECURSIVE Pow2(_)
Pow2(n) == IF n = 0 THEN 1 ELSE 2 * Pow2(n - 1)

\* (x >> k) & 1
Bit(x, k) == (x \div Pow2(k)) % 2

\* the index j of the source at which variables holds name
indexOf(variables, name) == (CHOOSE k \in 1..Len(variables) : variables[k] = name) - 1

\* mutant of rowAssignment: the rows counted upward from all-false
rowAssignmentAscending(variables, numRows, i) ==
    [name \in {variables[k] : k \in 1..Len(variables)} |->
        Bit(i, Len(variables) - 1 - indexOf(variables, name)) = 1]

\* the assignment of row i: variables[j] is true iff bit (n-1-j) of (numRows-1-i)
rowAssignment(variables, numRows, i) ==
    [name \in {variables[k] : k \in 1..Len(variables)} |->
        Bit(numRows - 1 - i, Len(variables) - 1 - indexOf(variables, name)) = 1]

\* the rows of the table, row i of the source at index i + 1
tableRows(f, variables, numRows) ==
    [r \in 1..numRows |->
        [assignment |-> rowAssignment(variables, numRows, r - 1),
         result |-> evaluate(f, rowAssignment(variables, numRows, r - 1))]]

\* mutant of tableOver: the last row left out
tableOverShort(f, variables) ==
    [variables |-> variables,
     rows |-> tableRows(f, variables, Pow2(Len(variables)) - 1)]

tableOver(f, variables) ==
    [variables |-> variables, rows |-> tableRows(f, variables, Pow2(Len(variables)))]

generateTruthTable(f) == tableOver(f, SortNames(getVariables(f)))

(* Analyzer: analyzer.ts *)

\* mutant of classifyRows: one true row is enough for TAUTOLOGY
classifyRowsSomeTrue(rows) ==
    IF \E r \in 1..Len(rows) : rows[r].result = TRUE THEN "TAUTOLOGY"
    ELSE "CONTRADICTION"

classifyRows(rows) ==
    IF \A r \in 1..Len(rows) : rows[r].result = TRUE THEN "TAUTOLOGY"
    ELSE IF \A r \in 1..Len(rows) : rows[r].result = FALSE THEN "CONTRADICTION"
    ELSE "CONTINGENT"

classifyFormula(f) == classifyRows(generateTruthTable(f).rows)

isTautology(f) == classifyFormula(f) = "TAUTOLOGY"

\* mutant of areEquivalent: the classes of the two formulas compared
areEquivalentSameClass(f1, f2) == classifyFormula(f1) = classifyFormula(f2)

\* mutant of areEquivalent: the conditional tested in place of the biconditional
areEquivalentOneWay(f1, f2) == isTautology(Binary("IMPLIES", f1, f2))

areEquivalent(f1, f2) == isTautology(Binary("IFF", f1, f2))

getPrecedence(o) ==
    CASE o = "IFF" -> 1
      [] o = "IMPLIES" -> 2
      [] o = "OR" -> 3
      [] o = "AND" -> 4
      [] OTHER -> 0

operatorSymbol(o) ==
    CASE o = "AND" -> "u2227"
      [] o = "OR" -> "u2228"
      [] o = "IMPLIES" -> "u2192"
      [] o = "IFF" -> "u2194"

needsLeftParen(f) ==
    f.left.type = "BINARY"
    /\ getPrecedence(f.left.operator) < getPrecedence(f.operator)

needsRightParen(f) ==
    f.right.type = "BINARY"
    /\ getPrecedence(f.right.operator) <= getPrecedence(f.operator)

RECURSIVE formulaToString(_)
formulaToString(f) ==
    CASE f.type = "ATOM" -> f.value
      [] f.type = "NOT" ->
            LET operandStr == formulaToString(f.operand)
            IN IF f.operand.type = "BINARY"
               THEN <<"u00AC", "(">> \o operandStr \o <<")">>
               ELSE <<"u00AC">> \o operandStr
      [] f.type = "BINARY" ->
            LET left == formulaToString(f.left)
                right == formulaToString(f.right)
                leftStr == IF needsLeftParen(f)
                           THEN <<"(">> \o left \o <<")">> ELSE left
                rightStr == IF needsRightParen(f)
                            THEN <<"(">> \o right \o <<")">> ELSE right
            IN leftStr \o <<" ", operatorSymbol(f.operator), " ">> \o rightStr

(* Parser: LogicParser (tokenize, the recursive descent) *)

Letters ==
    {"A", "B", "C", "D", "E", "F", "G", "H", "I", "J", "K", "L", "M",
     "N", "O", "P", "Q", "R", "S", "T", "U", "V", "W", "X", "Y", "Z",
     "a", "b", "c", "d", "e", "f", "g", "h", "i", "j", "k", "l", "m",
     "n", "o", "p", "q", "r", "s", "t", "u", "v", "w", "x", "y", "z"}

Digits == {"0", "1", "2", "3", "4", "5", "6", "7", "8", "9"}

\* /\s/
Whitespace == {" ", "\t", "\n", "\r"}

\* /[A-Za-z]/
IsLetter(c) == c \in Letters

\* /[A-Za-z0-9_]/
IsWordChar(c) == c \in Letters \cup Digits \cup {"_"}

\* input[i] of the source, undefined beyond the end
CharAt(input, i) == IF i < Len(input) THEN input[i + 1] ELSE "undefined"

\* input.slice(i, i + n)
Slice(input, i, n) ==
    SubSeq(input, i + 1, IF i + n < Len(input) THEN i + n ELSE Len(input))

\* offset just past the maximal run of word characters that starts at i
RECURSIVE wordEnd(_, _)
wordEnd(input, i) ==
    IF i < Len(input) /\ IsWordChar(input[i + 1]) THEN wordEnd(input, i + 1) ELSE i

Thrown(message) == [ok |-> FALSE, error |-> message]

RECURSIVE tokenizeFrom(_, _, _)
tokenizeFrom(input, i, tokens) ==
    IF i >= Len(input)
    THEN [ok |-> TRUE, tokens |-> Append(tokens, [type |-> "EOF", pos |-> i])]
    ELSE
      LET char == input[i + 1] IN
      IF char \in Whitespace THEN tokenizeFrom(input, i + 1, tokens)
      ELSE IF IsLetter(char) THEN
          LET end == wordEnd(input, i)
          IN tokenizeFrom(input, end,
                Append(tokens, [type |-> "ATOM",
                                value |-> SubSeq(input, i + 1, end),
                                pos |-> i]))
      ELSE IF char = "(" THEN
          tokenizeFrom(input, i + 1, Append(tokens, [type |-> "LPAREN", pos |-> i]))
      ELSE IF char = ")" THEN
          tokenizeFrom(input, i + 1, Append(tokens, [type |-> "RPAREN", pos |-> i]))
      ELSE IF char \in {"~", "u00AC", "!"} THEN
          tokenizeFrom(input, i + 1, Append(tokens, [type |-> "NOT", pos |-> i]))
      ELSE IF char \in {"&", "^", "u2227"} THEN
          tokenizeFrom(input, i + 1,
                Append(tokens, [type |-> "AND", operator |-> "AND", pos |-> i]))
      ELSE IF char \in {"|", "u2228"} THEN
          tokenizeFrom(input, i + 1,
                Append(tokens, [type |-> "OR", operator |-> "OR", pos |-> i]))
      ELSE IF char = "u2192" THEN
          tokenizeFrom(input, i + 1,
                Append(tokens, [type |-> "IMPLIES", operator |-> "IMPLIES", pos |-> i]))
      ELSE IF char = "u2194" THEN
          tokenizeFrom(input, i + 1,
                Append(tokens, [type |-> "IFF", operator |-> "IFF", pos |-> i]))
      ELSE IF char = "-" THEN
          IF CharAt(input, i + 1) = ">"
          THEN tokenizeFrom(input, i + 2,
                Append(tokens, [type |-> "IMPLIES", operator |-> "IMPLIES", pos |-> i]))
          ELSE Thrown([kind |-> "Unknown char", char |-> "-", at |-> i])
      ELSE IF char = "=" THEN
          IF CharAt(input, i + 1) = ">"
          THEN tokenizeFrom(input, i + 2,
                Append(tokens, [type |-> "IMPLIES", operator |-> "IMPLIES", pos |-> i]))
          ELSE Thrown([kind |-> "Unknown char", char |-> "=", at |-> i])
      ELSE IF char = "<" THEN
          IF Slice(input, i, 3) = <<"<", "-", ">">>
             \/ Slice(input, i, 3) = <<"<", "=", ">">>
          THEN tokenizeFrom(input, i + 3,
                Append(tokens, [type |-> "IFF", operator |-> "IFF", pos |-> i]))
          ELSE Thrown([kind |-> "Unknown char", char |-> "<", at |-> i])
      ELSE Thrown([kind |-> "Unknown char", char |-> char, at |-> i])

\* mutant of tokenize: the Unicode spellings are unknown characters
tokenizeAsciiOnly(input) ==
    IF \E i \in 1..Len(input) :
          input[i] \in {"u00AC", "u2227", "u2228", "u2192", "u2194"}
    THEN Thrown([kind |-> "Unknown char", char |-> "u00AC", at |-> 0])
    ELSE tokenizeFrom(input, 0, <<>>)

tokenize(input) == tokenizeFrom(input, 0, <<>>)

\* this.current()
current(tokens, pos) == tokens[pos + 1]

Parsed(f, pos) == [ok |-> TRUE, formula |-> f, pos |-> pos]

\* this.consume(type): the position after the token, or the error thrown
consume(tokens, pos, type) ==
    IF current(tokens, pos).type = type
    THEN [ok |-> TRUE, pos |-> pos + 1]
    ELSE Thrown([kind |-> "Expected", expected |-> type,
                 found |-> current(tokens, pos).type,
                 at |-> current(tokens, pos).pos])

RECURSIVE parseIff(_, _)
RECURSIVE parseIffLoop(_, _, _)
RECURSIVE parseImplies(_, _)
RECURSIVE parseOr(_, _)
RECURSIVE parseOrLoop(_, _, _)
RECURSIVE parseAnd(_, _)
RECURSIVE parseAndLoop(_, _, _)
RECURSIVE parseNot(_, _)
RECURSIVE parseAtom(_, _)

\* A step "x = this.parseY(); rest" is written restOf(tokens, ..., parseY(...)):
\* the operator named after the step takes what parseY returned, and passes a
\* thrown error on unchanged.

\* left = Binary(o, left, right) and back to the head of the while loop
iffLoopBody(tokens, left, right) ==
    IF right.ok
    THEN parseIffLoop(tokens, Binary("IFF", left, right.formula), right.pos)
    ELSE right

parseIffLoop(tokens, left, pos) ==
    IF current(tokens, pos).type = "IFF"
    THEN iffLoopBody(tokens, left, parseImplies(tokens, pos + 1))
    ELSE Parsed(left, pos)

iffAfterFirst(tokens, first) ==
    IF first.ok THEN parseIffLoop(tokens, first.formula, first.pos) ELSE first

\* Iff -> Implies ( <-> Implies )*
parseIff(tokens, pos) == iffAfterFirst(tokens, parseImplies(tokens, pos))

\* mutant of impliesAfterLeft: "->" read as a loop, like the other connectives,
\* which makes it left-associative
RECURSIVE impliesLoop(_, _)
impliesLoopBody(tokens, left, right) ==
    IF right.ok
    THEN impliesLoop(tokens,
             Parsed(Binary("IMPLIES", left.formula, right.formula), right.pos))
    ELSE right

impliesLoop(tokens, left) ==
    IF ~left.ok THEN left
    ELSE IF current(tokens, left.pos).type = "IMPLIES"
    THEN impliesLoopBody(tokens, left, parseOr(tokens, left.pos + 1))
    ELSE left

impliesResult(left, right) ==
    IF right.ok
    THEN Parsed(Binary("IMPLIES", left.formula, right.formula), right.pos)
    ELSE right

impliesAfterLeft(tokens, left) ==
    IF ~left.ok THEN left
    ELSE IF current(tokens, left.pos).type = "IMPLIES"
    THEN impliesResult(left, parseImplies(tokens, left.pos + 1))
    ELSE left

\* Implies -> Or ( -> Implies )?   (the recursive call makes it right-associative)
parseImplies(tokens, pos) == impliesAfterLeft(tokens, parseOr(tokens, pos))

orLoopBody(tokens, left, right) ==
    IF right.ok
    THEN parseOrLoop(tokens, Binary("OR", left, right.formula), right.pos)
    ELSE right

parseOrLoop(tokens, left, pos) ==
    IF current(tokens, pos).type = "OR"
    THEN orLoopBody(tokens, left, parseAnd(tokens, pos + 1))
    ELSE Parsed(left, pos)

orAfterFirst(tokens, first) ==
    IF first.ok THEN parseOrLoop(tokens, first.formula, first.pos) ELSE first

\* Or -> And ( | And )*
parseOr(tokens, pos) == orAfterFirst(tokens, parseAnd(tokens, pos))

andLoopBody(tokens, left, right) ==
    IF right.ok
    THEN parseAndLoop(tokens, Binary("AND", left, right.formula), right.pos)
    ELSE right

parseAndLoop(tokens, left, pos) ==
    IF current(tokens, pos).type = "AND"
    THEN andLoopBody(tokens, left, parseNot(tokens, pos + 1))
    ELSE Parsed(left, pos)

andAfterFirst(tokens, first) ==
    IF first.ok THEN parseAndLoop(tokens, first.formula, first.pos) ELSE first

\* And -> Not ( & Not )*
parseAnd(tokens, pos) == andAfterFirst(tokens, parseNot(tokens, pos))

notResult(operand) ==
    IF operand.ok THEN Parsed(Not(operand.formula), operand.pos) ELSE operand

\* mutant of parseNot: the operand of "~" is read at the conjunction level
parseNotLoose(tokens, pos) ==
    IF current(tokens, pos).type = "NOT"
    THEN notResult(parseAnd(tokens, pos + 1))
    ELSE parseAtom(tokens, pos)

\* Not -> ~Not | AtomTerm
parseNot(tokens, pos) ==
    IF current(tokens, pos).type = "NOT"
    THEN notResult(parseNot(tokens, pos + 1))
    ELSE parseAtom(tokens, pos)

closeParen(expr, closed) ==
    IF closed.ok THEN Parsed(expr.formula, closed.pos) ELSE closed

atomAfterExpr(tokens, expr) ==
    IF ~expr.ok THEN expr
    ELSE closeParen(expr, consume(tokens, expr.pos, "RPAREN"))

\* AtomTerm -> ( Iff ) | ATOM
parseAtom(tokens, pos) ==
    IF current(tokens, pos).type = "LPAREN"
    THEN atomAfterExpr(tokens, parseIff(tokens, pos + 1))
    ELSE IF current(tokens, pos).type = "ATOM"
    THEN Parsed(Atom(current(tokens, pos).value), pos + 1)
    ELSE Thrown([kind |-> "Unexpected token at atom expectation",
                 found |-> current(tokens, pos).type,
                 at |-> current(tokens, pos).pos])

\* mutant of parseEnd: whatever follows the first complete formula is ignored
parseEndIgnoresRest(tokens, parsed) ==
    IF ~parsed.ok THEN parsed ELSE [ok |-> TRUE, formula |-> parsed.formula]

\* the check after parseIff that nothing but EOF is left
parseEnd(tokens, parsed) ==
    IF ~parsed.ok THEN parsed
    ELSE IF current(tokens, parsed.pos).type # "EOF"
    THEN Thrown([kind |-> "Unexpected token at position",
                 found |-> current(tokens, parsed.pos).type,
                 at |-> current(tokens, parsed.pos).pos])
    ELSE [ok |-> TRUE, formula |-> parsed.formula]

parseTokens(lexed) ==
    IF ~lexed.ok THEN lexed ELSE parseEnd(lexed.tokens, parseIff(lexed.tokens, 0))

\* LogicParser.parse(input): [ok |-> TRUE, formula |-> f] or the Error thrown
parse(input) == parseTokens(tokenize(input))

(* A LogicParser instance: the fields tokens and pos, kept between calls *)

\* private tokens: Token[] = []; private pos = 0
NewParser == [tokens |-> <<>>, pos |-> 0]

\* mutant of tokensAssigned: the new tokens are pushed after the old ones
tokensAppended(instance, tokens) ==
    [instance EXCEPT !.tokens = instance.tokens \o tokens]

\* this.tokens = this.tokenize(input)
tokensAssigned(instance, tokens) == [instance EXCEPT !.tokens = tokens]

\* this.pos = 0
positionReset(instance) == [instance EXCEPT !.pos = 0]

\* the index of the token that starts at a character offset
tokenIndexAt(tokens, at) == CHOOSE k \in 0..(Len(tokens) - 1) : tokens[k + 1].pos = at

\* this.pos when the call ends: after the formula parseIff read, or at the
\* token it threw on
positionLeft(instance, grammar) ==
    IF grammar.ok THEN [instance EXCEPT !.pos = grammar.pos]
    ELSE [instance EXCEPT !.pos = tokenIndexAt(instance.tokens, grammar.error.at)]

\* what a call leaves: the instance, and what it returned or threw
Call(instance, outcome) == [instance |-> instance, outcome |-> outcome]

parsedBy(instance, grammar) ==
    Call(positionLeft(instance, grammar), parseEnd(instance.tokens, grammar))

parseStarted(instance) ==
    parsedBy(instance, parseIff(instance.tokens, instance.pos))

tokenizedBy(instance, lexed) ==
    IF ~lexed.ok THEN Call(instance, lexed)
    ELSE parseStarted(positionReset(tokensAssigned(instance, lexed.tokens)))

\* instance.parse(input)
parseBy(instance, input) == tokenizedBy(instance, tokenize(input))

(* Normal-form transformer: normalForms *)

\* A -> B  becomes  ~A | B
rewriteImplies(left, right) == Binary("OR", Not(left), right)

\* mutant of rewriteIff: the biconditional becomes two conditionals
rewriteIffAsConditionals(left, right) ==
    Binary("AND", Binary("IMPLIES", left, right), Binary("IMPLIES", right, left))

\* A <-> B  becomes  (~A | B) & (~B | A)
rewriteIff(left, right) ==
    Binary("AND", Binary("OR", Not(left), right), Binary("OR", Not(right), left))

RECURSIVE eliminateImplications(_)
eliminateImplications(f) ==
    CASE f.type = "ATOM" -> f
      [] f.type = "NOT" -> Not(eliminateImplications(f.operand))
      [] f.type = "BINARY" ->
            LET left == eliminateImplications(f.left)
                right == eliminateImplications(f.right)
            IN CASE f.operator = "IMPLIES" -> rewriteImplies(left, right)
                 [] f.operator = "IFF" -> rewriteIff(left, right)
                 [] OTHER -> Binary(f.operator, left, right)

\* mutant of deMorganAnd: the negations move inward, the connective stays
deMorganAndKeepsAnd(operand) == Binary("AND", Not(operand.left), Not(operand.right))

\* ~(A & B)  becomes  ~A | ~B
deMorganAnd(operand) == Binary("OR", Not(operand.left), Not(operand.right))

\* ~(A | B)  becomes  ~A & ~B
deMorganOr(operand) == Binary("AND", Not(operand.left), Not(operand.right))

RECURSIVE pushNegationsInward(_)
pushNegationsInward(f) ==
    CASE f.type = "ATOM" -> f
      [] f.type = "NOT" ->
            (LET operand == f.operand IN
             CASE operand.type = "ATOM" -> f
               [] operand.type = "NOT" -> pushNegationsInward(operand.operand)
               [] operand.type = "BINARY" ->
                     IF operand.operator = "AND"
                     THEN pushNegationsInward(deMorganAnd(operand))
                     ELSE IF operand.operator = "OR"
                     THEN pushNegationsInward(deMorganOr(operand))
                     ELSE f)
      [] f.type = "BINARY" ->
            Binary(f.operator, pushNegationsInward(f.left),
                   pushNegationsInward(f.right))

\* mutant of distributeOrOverAnd: one distribution step, the new disjunctions
\* are not distributed further
distributeOnce(f) ==
    IF f.type # "BINARY" \/ f.operator # "OR" THEN f
    ELSE IF f.right.type = "BINARY" /\ f.right.operator = "AND"
    THEN Binary("AND", Binary("OR", f.left, f.right.left),
                       Binary("OR", f.left, f.right.right))
    ELSE IF f.left.type = "BINARY" /\ f.left.operator = "AND"
    THEN Binary("AND", Binary("OR", f.left.left, f.right),
                       Binary("OR", f.left.right, f.right))
    ELSE f

\* A | (B & C)  becomes  (A | B) & (A | C), the right operand tried first
RECURSIVE distributeOrOverAnd(_)
distributeOrOverAnd(f) ==
    IF f.type # "BINARY" \/ f.operator # "OR" THEN f
    ELSE LET left == f.left
             right == f.right
         IN IF right.type = "BINARY" /\ right.operator = "AND"
            THEN Binary("AND",
                        distributeOrOverAnd(Binary("OR", left, right.left)),
                        distributeOrOverAnd(Binary("OR", left, right.right)))
            ELSE IF left.type = "BINARY" /\ left.operator = "AND"
            THEN Binary("AND",
                        distributeOrOverAnd(Binary("OR", left.left, right)),
                        distributeOrOverAnd(Binary("OR", left.right, right)))
            ELSE f

\* mutant of distributeAndOverOr: one distribution step, the new conjunctions
\* are not distributed further
distributeAndOnce(f) ==
    IF f.type # "BINARY" \/ f.operator # "AND" THEN f
    ELSE IF f.right.type = "BINARY" /\ f.right.operator = "OR"
    THEN Binary("OR", Binary("AND", f.left, f.right.left),
                      Binary("AND", f.left, f.right.right))
    ELSE IF f.left.type = "BINARY" /\ f.left.operator = "OR"
    THEN Binary("OR", Binary("AND", f.left.left, f.right),
                      Binary("AND", f.left.right, f.right))
    ELSE f

\* A & (B | C)  becomes  (A & B) | (A & C), the right operand tried first
RECURSIVE distributeAndOverOr(_)
distributeAndOverOr(f) ==
    IF f.type # "BINARY" \/ f.operator # "AND" THEN f
    ELSE LET left == f.left
             right == f.right
         IN IF right.type = "BINARY" /\ right.operator = "OR"
            THEN Binary("OR",
                        distributeAndOverOr(Binary("AND", left, right.left)),
                        distributeAndOverOr(Binary("AND", left, right.right)))
            ELSE IF left.type = "BINARY" /\ left.operator = "OR"
            THEN Binary("OR",
                        distributeAndOverOr(Binary("AND", left.left, right)),
                        distributeAndOverOr(Binary("AND", left.right, right)))
            ELSE f

RECURSIVE toCNFRecursive(_)
toCNFRecursive(f) ==
    IF f.type \in {"ATOM", "NOT"} THEN f
    ELSE LET combined == Binary(f.operator, toCNFRecursive(f.left),
                                toCNFRecursive(f.right))
         IN IF f.operator = "OR" THEN distributeOrOverAnd(combined) ELSE combined

RECURSIVE toDNFRecursive(_)
toDNFRecursive(f) ==
    IF f.type \in {"ATOM", "NOT"} THEN f
    ELSE LET combined == Binary(f.operator, toDNFRecursive(f.left),
                                toDNFRecursive(f.right))
         IN IF f.operator = "AND" THEN distributeAndOverOr(combined) ELSE combined

toNNF(f) == pushNegationsInward(eliminateImplications(f))

toCNF(f) == toCNFRecursive(pushNegationsInward(eliminateImplications(f)))

toDNF(f) == toDNFRecursive(pushNegationsInward(eliminateImplications(f)))

(* Inputs of the engine: formula texts *)

AtomNames == {<<"P">>, <<"Q">>}

\* the ASTs with exactly n connectives over AtomNames
RECURSIVE Shapes(_)
Shapes(n) ==
    IF n = 0 THEN {Atom(a) : a \in AtomNames}
    ELSE LET smaller == [k \in 0..(n - 1) |-> Shapes(k)]
         IN {Not(f) : f \in smaller[n - 1]}
            \cup UNION {{Binary(o, l, r) : o \in Connective, l \in smaller[k],
                                           r \in smaller[n - 1 - k]} : k \in 0..(n - 1)}

asciiSymbol(o) ==
    CASE o = "AND" -> <<"&">>
      [] o = "OR" -> <<"|">>
      [] o = "IMPLIES" -> <<"-", ">">>
      [] o = "IFF" -> <<"<", "-", ">">>

\* a text a user types for the AST f: ASCII spellings, every compound operand
\* in parentheses
RECURSIVE Spell(_)
RECURSIVE SpellOperand(_)
Spell(f) ==
    CASE f.type = "ATOM" -> f.value
      [] f.type = "NOT" -> <<"~">> \o SpellOperand(f.operand)
      [] f.type = "BINARY" ->
            SpellOperand(f.left) \o <<" ">> \o asciiSymbol(f.operator) \o <<" ">>
                \o SpellOperand(f.right)

SpellOperand(f) ==
    IF f.type = "ATOM" THEN Spell(f) ELSE <<"(">> \o Spell(f) \o <<")">>

ExhaustiveTexts == UNION {{Spell(f) : f \in Shapes(n)} : n \in 0..MaxConnectives}

\* larger formula texts, in the ASCII and the Unicode spellings
SampleTexts ==
    { <<"P", "-", ">", "Q", "-", ">", "R">>,
      <<"(", "P", "-", ">", "Q", ")", "-", ">", "R">>,
      <<"(", "P", "&", "Q", ")", "|", "(", "Q", "&", "R", ")">>,
      <<"(", "P", "|", "Q", ")", "&", "(", "R", "|", "S", ")">>,
      <<"(", "P", "&", "Q", ")", "|", "(", "R", "&", "S", ")", "|", "T">>,
      <<"~", "(", "(", "P", "&", "Q", ")", "|", "~", "(", "R", "-", ">", "P", ")", ")">>,
      <<"!", "!", "(", "P", "^", "!", "Q", ")", "=", ">", "R">>,
      <<"(", "P", "<", "-", ">", "Q", ")", "<", "=", ">", "R">>,
      <<"P", "u2194", "(", "Q", "u2194", "R", ")">>,
      <<"u00AC", "(", "P", "u2194", "(", "Q", "u2192", "R", ")", ")">>,
      <<"P", "u2228", "(", "Q", "u2227", "(", "R", "u2228", "(", "P", "u2227", "S", ")", ")", ")">>,
      <<"(", "P", "u2192", "Q", ")", "u2227", "(", "Q", "u2192", "R", ")", "u2192", "(", "P", "u2192", "R", ")">>,
      <<"p", "1", " ", "&", " ", "~", "p", "_", "2", " ", "|", " ", "p", "1">> }

\* texts without parentheses: A op1 B op2 C for every pair of connectives, and
\* negations in front of the operands
FlatTexts ==
    {<<"A">> \o asciiSymbol(o1) \o <<"B">> \o asciiSymbol(o2) \o <<"C">> :
        o1, o2 \in Connective}
    \cup {<<"A">> \o asciiSymbol(o) \o <<"B">> \o asciiSymbol(o) \o <<"C">>
              \o asciiSymbol(o) \o <<"D">> : o \in Connective}
    \cup {<<"~", "A">> \o asciiSymbol(o) \o <<"B">> : o \in Connective}
    \cup {<<"A">> \o asciiSymbol(o) \o <<"~", "~", "B">> : o \in Connective}
    \cup { <<"P", " ", "-", ">", " ", "(", "Q", " ", "&", " ", "R", ")">>,
           <<"R", "-", ">", "Q", "&", "P">>,
           <<"P", " ", "|", " ", "~", "P">>,
           <<"P", " ", "&", " ", "~", "P">>,
           <<"(", "A", "<", "-", ">", "B", ")", "&", "C">>,
           <<"A", "&", "(", "B", "<", "-", ">", "C", ")">>,
           <<"~", "(", "A", "-", ">", "B", ")", "&", "C">>,
           <<"c", "o", "n", "s", "t", "r", "u", "c", "t", "o", "r">>,
           <<"P", "&", "~", "t", "o", "S", "t", "r", "i", "n", "g">>,
           <<"R", "|", "Q">> }

\* malformed texts: an unknown character, an unexpected token, a missing
\* closing parenthesis, tokens after a complete formula, empty or truncated
MalformedTexts ==
    { <<"P", " ", "-", ">">>,
      <<>>,
      <<" ">>,
      <<"P", " ", "#">>,
      <<"#", "P">>,
      <<"P", ".", "Q">>,
      <<"1", "P">>,
      <<"_", "p">>,
      <<"P", " ", "Q">>,
      <<"P", " ", "(", "Q", ")">>,
      <<"(", "P", " ", "&", " ", "Q">>,
      <<"(", "P">>,
      <<"(", "(", "P", ")">>,
      <<"P", " ", "&", " ", "Q", ")">>,
      <<")">>,
      <<"(", ")">>,
      <<"P", " ", "&", " ", "&", " ", "Q">>,
      <<"&", " ", "P">>,
      <<"P", " ", "|">>,
      <<"P", " ", "~", " ", "Q">>,
      <<"P", "~">>,
      <<"~">>,
      <<"P", " ", "-">>,
      <<"P", " ", "-", " ", ">", " ", "Q">>,
      <<"P", " ", "=", " ", "Q">>,
      <<"P", " ", "<", " ", "Q">>,
      <<"P", " ", "<", "-", " ", "Q">>,
      <<"P", " ", "<", "-", ">">>,
      <<"P", " ", ">", " ", "Q">>,
      <<"P", " ", "<", "=", "Q">>,
      <<"(", "P", " ", "-", ">", " ", "Q", ")", " ", "R">> }

InputTexts == ExhaustiveTexts \cup SampleTexts \cup FlatTexts \cup MalformedTexts

(* The engine as a state machine: a text is parsed into the formula, then  *)
(* one of the pure operations is applied to it and what it returns is kept *)

None == [op |-> "none"]

NoFormula == [type |-> "none"]

Idle == [kind |-> "idle"]

\* no text has been handed to the parser yet
NoInput == [given |-> FALSE]

Given(text) == [given |-> TRUE, text |-> text]

InitEngine ==
    /\ typed = NoInput
    /\ formula = NoFormula
    /\ out = None
    /\ exercise = Idle
    /\ answer = Idle
    /\ result = Idle
    /\ parser = NewParser

\* what parse leaves behind: the formula it returned, or the error it threw
parseReturned(parsed) ==
    IF parsed.ok
    THEN formula' = parsed.formula /\ out' = None
    ELSE formula' = NoFormula /\ out' = [op |-> "thrown", error |-> parsed.error]

ParseInput ==
    /\ typed = NoInput
    /\ \E text \in InputTexts :
          /\ typed' = Given(text)
          /\ parseReturned(parse(text))
    /\ UNCHANGED <<exercise, answer, result, parser>>

Stringify ==
    /\ formula # NoFormula
    /\ out.op = "none"
    /\ out' = [op |-> "formulaToString", text |-> formulaToString(formula)]
    /\ UNCHANGED <<typed, formula, exercise, answer, result, parser>>

Reparse ==
    /\ out.op = "formulaToString"
    /\ out' = [op |-> "parse", text |-> out.text, parsed |-> parse(out.text)]
    /\ UNCHANGED <<typed, formula, exercise, answer, result, parser>>

ToNNF ==
    /\ formula # NoFormula
    /\ out.op = "none"
    /\ out' = [op |-> "toNNF", formula |-> toNNF(formula)]
    /\ UNCHANGED <<typed, formula, exercise, answer, result, parser>>

ToCNF ==
    /\ formula # NoFormula
    /\ out.op = "none"
    /\ out' = [op |-> "toCNF", formula |-> toCNF(formula)]
    /\ UNCHANGED <<typed, formula, exercise, answer, result, parser>>

ToDNF ==
    /\ formula # NoFormula
    /\ out.op = "none"
    /\ out' = [op |-> "toDNF", formula |-> toDNF(formula)]
    /\ UNCHANGED <<typed, formula, exercise, answer, result, parser>>

\* toNNF applied to what toNNF returned
ToNNFAgain ==
    /\ out.op = "toNNF"
    /\ out' = [op |-> "toNNFAgain", formula |-> out.formula,
               again |-> toNNF(out.formula)]
    /\ UNCHANGED <<typed, formula, exercise, answer, result, parser>>

\* toCNF applied to what toCNF returned
ToCNFAgain ==
    /\ out.op = "toCNF"
    /\ out' = [op |-> "toCNFAgain", formula |-> out.formula,
               again |-> toCNF(out.formula)]
    /\ UNCHANGED <<typed, formula, exercise, answer, result, parser>>

TruthTable ==
    /\ formula # NoFormula
    /\ out.op = "none"
    /\ out' = [op |-> "generateTruthTable", table |-> generateTruthTable(formula)]
    /\ UNCHANGED <<typed, formula, exercise, answer, result, parser>>

Classify ==
    /\ formula # NoFormula
    /\ out.op = "none"
    /\ out' = [op |-> "classifyFormula", class |-> classifyFormula(formula)]
    /\ UNCHANGED <<typed, formula, exercise, answer, result, parser>>

\* formulas the one under analysis is compared with: the same and other
\* variables, equivalent and not
OtherTexts ==
    { <<"P">>,
      <<"Q">>,
      <<"P", "&", "P">>,
      <<"P", "&", "Q">>,
      <<"P", "-", ">", "Q">>,
      <<"~", "P", "|", "Q">>,
      <<"P", "|", "~", "P">>,
      <<"R", "&", "~", "R">>,
      <<"P", "|", "(", "R", "&", "~", "R", ")">>,
      <<"(", "P", "<", "-", ">", "Q", ")", "<", "-", ">", "R">> }

\* areEquivalent called with the two formulas in both orders
comparedWith(other) ==
    out' = [op |-> "areEquivalent", other |-> other,
            value |-> areEquivalent(formula, other),
            swapped |-> areEquivalent(other, formula)]

Compare ==
    /\ formula # NoFormula
    /\ out.op = "none"
    /\ \E text \in OtherTexts : comparedWith(parse(text).formula)
    /\ UNCHANGED <<typed, formula, exercise, answer, result, parser>>

\* assignments that leave atoms out: every assignment of a part of P, Q
PartialAssignments ==
    UNION {[names -> BOOLEAN] : names \in SUBSET {<<"P">>, <<"Q">>}}

\* evaluate(formula, assignment)
Evaluate ==
    /\ formula # NoFormula
    /\ out.op = "none"
    /\ \E assignment \in PartialAssignments :
          out' = [op |-> "evaluate", assignment |-> assignment,
                  value |-> evaluate(formula, assignment)]
    /\ UNCHANGED <<typed, formula, exercise, answer, result, parser>>

\* the spellings the tokenizer accepts for a connective
Spellings(connective) ==
    CASE connective = "NOT" -> {<<"~">>, <<"!">>, <<"u00AC">>}
      [] connective = "AND" -> {<<"&">>, <<"^">>, <<"u2227">>}
      [] connective = "OR" -> {<<"|">>, <<"u2228">>}
      [] connective = "IMPLIES" -> {<<"-", ">">>, <<"=", ">">>, <<"u2192">>}
      [] connective = "IFF" -> {<<"<", "-", ">">>, <<"<", "=", ">">>, <<"u2194">>}

\* the connective whose spelling starts at offset i of the text, if one does
spelledAt(text, i) ==
    LET c == text[i + 1] IN
    CASE c \in {"~", "!", "u00AC"} -> [connective |-> "NOT", len |-> 1]
      [] c \in {"&", "^", "u2227"} -> [connective |-> "AND", len |-> 1]
      [] c \in {"|", "u2228"} -> [connective |-> "OR", len |-> 1]
      [] c = "u2192" -> [connective |-> "IMPLIES", len |-> 1]
      [] c = "u2194" -> [connective |-> "IFF", len |-> 1]
      [] c \in {"-", "="} /\ CharAt(text, i + 1) = ">" ->
            [connective |-> "IMPLIES", len |-> 2]
      [] c = "<" /\ Slice(text, i, 3) \in {<<"<", "-", ">">>, <<"<", "=", ">">>} ->
            [connective |-> "IFF", len |-> 3]
      [] OTHER -> [connective |-> "none", len |-> 1]

\* the occurrences of connective spellings in a text, read from the left the
\* way the tokenizer delimits them: a spelling is taken whole, and nothing is
\* read after a character that starts no token
RECURSIVE occurrencesFrom(_, _)
occurrencesFrom(text, i) ==
    IF i >= Len(text) THEN {}
    ELSE IF text[i + 1] \in Whitespace \cup {"(", ")"} THEN occurrencesFrom(text, i + 1)
    ELSE IF IsLetter(text[i + 1]) THEN occurrencesFrom(text, wordEnd(text, i))
    ELSE IF spelledAt(text, i).connective = "none" THEN {}
    ELSE {[at |-> i, len |-> spelledAt(text, i).len,
           connective |-> spelledAt(text, i).connective]}
         \cup occurrencesFrom(text, i + spelledAt(text, i).len)

\* the text with the occurrence written in another spelling
respell(text, occurrence, spelling) ==
    SubSeq(text, 1, occurrence.at) \o spelling
        \o SubSeq(text, occurrence.at + occurrence.len + 1, Len(text))

respelledParsed(text, parsed) ==
    out' = [op |-> "respelled", text |-> text, parsed |-> parsed]

respelledAs(text) == respelledParsed(text, parse(text))

\* the same text typed with one connective in another of its spellings, parsed
Respell ==
    /\ typed # NoInput
    /\ out.op \in {"none", "thrown"}
    /\ \E occurrence \in occurrencesFrom(typed.text, 0) :
          \E spelling \in Spellings(occurrence.connective) :
             /\ spelling # SubSeq(typed.text, occurrence.at + 1,
                                  occurrence.at + occurrence.len)
             /\ respelledAs(respell(typed.text, occurrence, spelling))
    /\ UNCHANGED <<typed, formula, exercise, answer, result, parser>>

NextEngine ==
    \/ Respell
    \/ Evaluate
    \/ ParseInput
    \/ Stringify
    \/ Reparse
    \/ ToNNF
    \/ ToCNF
    \/ ToDNF
    \/ ToNNFAgain
    \/ ToCNFAgain
    \/ TruthTable
    \/ Classify
    \/ Compare

SpecEngine == InitEngine /\ [][NextEngine]_vars

\* C1: printing a parsed formula and parsing the text again succeeds and gives
\* a formula equivalent to the one printed
C1_RoundTrip ==
    out.op = "parse" =>
        /\ out.parsed.ok
        /\ areEquivalent(formula, out.parsed.formula)

\* C2: toNNF(f), toCNF(f) and toDNF(f) are each equivalent to f
C2_SemanticPreservation ==
    out.op \in {"toNNF", "toCNF", "toDNF"} => areEquivalent(formula, out.formula)

\* a biconditional was brought into disjunctive normal form: implications
\* eliminated, the conjunction of the two clauses distributed
C2_BiconditionalDistributed ==
    /\ out.op = "toDNF"
    /\ formula.type = "BINARY"
    /\ formula.operator = "IFF"
    /\ out.formula.type = "BINARY"
    /\ out.formula.operator = "OR"
    /\ out.formula # toNNF(formula)

(* JavaScript values the grader receives: exercise.content, exercise.solution *)
(* and studentAnswer are untyped JSON                                        *)

Undefined == [t |-> "undefined", v |-> <<>>]

Null == [t |-> "null", v |-> <<>>]

Bool(b) == [t |-> "boolean", v |-> b]

\* a string, as the sequence of its characters
Str(s) == [t |-> "string", v |-> s]

\* an array, as the sequence of its elements
Arr(elements) == [t |-> "array", v |-> elements]

\* an object, as the function from its own property names to their values
Obj(fields) == [t |-> "object", v |-> fields]

IsNullish(x) == x.t \in {"undefined", "null"}

\* ToBoolean
Truthy(x) ==
    CASE x.t \in {"undefined", "null"} -> FALSE
      [] x.t = "boolean" -> x.v
      [] x.t = "string" -> x.v # <<>>
      [] OTHER -> TRUE

\* x.key for a non-nullish x (a nullish x throws a TypeError: see the callers)
Prop(x, key) ==
    IF x.t = "object" /\ key \in DOMAIN x.v THEN x.v[key] ELSE Undefined

\* x[i] for a non-nullish x and an integer i >= 0
Index(x, i) ==
    CASE x.t = "array" /\ i < Len(x.v) -> x.v[i + 1]
      [] x.t = "string" /\ i < Len(x.v) -> Str(<<x.v[i + 1]>>)
      [] OTHER -> Undefined

\* x.length of an array or a string
Length(x) == IF x.t \in {"array", "string"} THEN Len(x.v) ELSE -1

\* a === b: primitives by value, arrays and objects by identity (two values
\* decoded from JSON are never the same object)
StrictEquals(a, b) == a.t \notin {"array", "object"} /\ a = b

\* the elements an iteration of x visits, when x is iterable
IsIterable(x) == x.t \in {"array", "string"}

Elements(x) ==
    IF x.t = "array" THEN x.v ELSE [i \in 1..Len(x.v) |-> Str(<<x.v[i]>>)]

\* s.trim()
RECURSIVE trimStart(_)
trimStart(s) ==
    IF s # <<>> /\ Head(s) \in Whitespace THEN trimStart(Tail(s)) ELSE s

RECURSIVE trimEnd(_)
trimEnd(s) ==
    IF s # <<>> /\ s[Len(s)] \in Whitespace
    THEN trimEnd(SubSeq(s, 1, Len(s) - 1)) ELSE s

trim(s) == trimEnd(trimStart(s))

\* s.replace(/\s+/g, '')
removeWhitespace(s) == SelectSeq(s, LAMBDA c : c \notin Whitespace)

(* JavaScript numbers a score takes: a ratio of integers in lowest terms,  *)
(* or one of the non-finite values a division by zero produces             *)

RECURSIVE Gcd(_, _)
Gcd(a, b) == IF b = 0 THEN a ELSE Gcd(b, a % b)

Abs(a) == IF a < 0 THEN -a ELSE a

Ratio(n, d) ==
    LET g == Gcd(Abs(n), d)
    IN [kind |-> "finite", num |-> n \div g, den |-> d \div g]

NaN == [kind |-> "NaN", num |-> 0, den |-> 0]

Infinity == [kind |-> "Infinity", num |-> 1, den |-> 0]

NegInfinity == [kind |-> "-Infinity", num |-> -1, den |-> 0]

Zero == Ratio(0, 1)

One == Ratio(1, 1)

\* a / b for an integer a and an integer b >= 0
Divide(a, b) ==
    IF b # 0 THEN Ratio(a, b)
    ELSE IF a = 0 THEN NaN
    ELSE IF a > 0 THEN Infinity
    ELSE NegInfinity

\* Math.max(0, x)
MaxZero(x) ==
    CASE x.kind = "NaN" -> NaN
      [] x.kind = "Infinity" -> Infinity
      [] x.kind = "-Infinity" -> Zero
      [] OTHER -> IF x.num < 0 THEN Zero ELSE x

\* a number (an array index, a row)
Num(n) == [t |-> "number", v |-> n]

\* the property key a value used as obj[key] is converted to
UndefinedKey == <<"u", "n", "d", "e", "f", "i", "n", "e", "d">>

KeyOf(x) == IF x.t = "string" THEN x.v ELSE UndefinedKey

(* Grader: gradeSubmission and the branch of each exercise type.            *)
(* A call either returns a GradingResult or throws; feedback is the fixed   *)
(* start of the message, explanation texts are left out                     *)

Graded(isCorrect, score, feedback, details) ==
    [kind |-> "return", isCorrect |-> isCorrect, score |-> score,
     feedback |-> feedback, details |-> details]

NoDetails == [absent |-> TRUE]

Throws(error) == [kind |-> "throw", error |-> error]

\* parser.parse(x) on a JavaScript value: only strings are parsed
parseValue(x) == IF x.t = "string" THEN parse(x.v) ELSE Thrown("TypeError")

\* mutant of checkEquivalence: the two formulas compared as trees
checkIdentical(f1, f2) == f1 = f2

checkEquivalence(f1, f2) == isTautology(Binary("IFF", f1, f2))

\* A step "const x = e; rest" whose x is used more than once is written
\* restOf(..., e): the operator named after the step takes the value of e.

\* exercise.formula || content?.targetFormula
targetFormulaStr(ex) ==
    IF Truthy(ex.formula) THEN ex.formula
    ELSE IF IsNullish(ex.content) THEN Undefined
    ELSE Prop(ex.content, "targetFormula")

equivalenceVerdict(studentFormula, targetFormula) ==
    IF ~studentFormula.ok \/ ~targetFormula.ok THEN Throws("Error")
    ELSE IF checkEquivalence(studentFormula.formula, targetFormula.formula)
    THEN Graded(TRUE, One, "Correcto! Tu formula es logicamente equivalente", NoDetails)
    ELSE Graded(FALSE, Zero, "Incorrecto. Tu formula no es equivalente", NoDetails)

\* the body of gradeEquivalence's try block, from the test of targetFormulaStr on
equivalenceAgainst(target, studentAnswer) ==
    IF ~Truthy(target)
    THEN Graded(FALSE, Zero, "Error: Configuracion de ejercicio invalida", NoDetails)
    ELSE IF studentAnswer.t # "string" THEN Throws("TypeError")
    ELSE equivalenceVerdict(parse(trim(studentAnswer.v)), parseValue(target))

\* the catch of gradeEquivalence
syntaxErrorCaught(body) ==
    IF body.kind = "throw"
    THEN Graded(FALSE, Zero, "Error de sintaxis", NoDetails)
    ELSE body

gradeEquivalence(ex, studentAnswer) ==
    syntaxErrorCaught(equivalenceAgainst(targetFormulaStr(ex), studentAnswer))

\* new Set(x): the set built, when the constructor does not throw
elementSet(elements) == {elements[i] : i \in 1..Len(elements)}

SetOf(x) == IF IsNullish(x) THEN {} ELSE elementSet(Elements(x))

SetThrows(x) == ~IsNullish(x) /\ ~IsIterable(x)

\* correctSet.has(id)
Has(set, id) == \E e \in set : StrictEquals(e, id)

\* the number of elements of the array that are (or are not) in correctSet,
\* counted as studentAnswer.forEach counts them: once per position
RECURSIVE countSelected(_, _, _)
countSelected(ids, correctSet, wanted) ==
    IF ids = <<>> THEN 0
    ELSE (IF Has(correctSet, Head(ids)) = wanted THEN 1 ELSE 0)
         + countSelected(Tail(ids), correctSet, wanted)

\* mutant of multipleSelectionScore: no penalty for the wrong selections
multipleSelectionNoPenalty(correctSelected, incorrectSelected, totalCorrect) ==
    MaxZero(Divide(correctSelected, totalCorrect))

multipleSelectionScore(correctSelected, incorrectSelected, totalCorrect) ==
    MaxZero(Divide(correctSelected - incorrectSelected, totalCorrect))

multipleSelectionCorrect(correctSelected, incorrectSelected, totalCorrect) ==
    correctSelected = totalCorrect /\ incorrectSelected = 0

multipleSelectionResult(isCorrect, score, correctSelected, incorrectSelected, totalCorrect) ==
    Graded(isCorrect, score,
           IF isCorrect THEN "Correcto! Seleccionaste todas las respuestas correctas"
           ELSE IF correctSelected > 0 THEN "Parcialmente correcto"
           ELSE "Incorrecto. Ninguna de tus selecciones es correcta",
           [correctSelected |-> correctSelected,
            incorrectSelected |-> incorrectSelected,
            totalCorrect |-> totalCorrect])

multipleSelectionCounted(correctSelected, incorrectSelected, totalCorrect) ==
    multipleSelectionResult(
        multipleSelectionCorrect(correctSelected, incorrectSelected, totalCorrect),
        multipleSelectionScore(correctSelected, incorrectSelected, totalCorrect),
        correctSelected, incorrectSelected, totalCorrect)

\* the allowMultiple branch
multipleSelection(correctSet, studentAnswer) ==
    IF studentAnswer.t # "array" THEN Throws("TypeError")
    ELSE multipleSelectionCounted(countSelected(studentAnswer.v, correctSet, TRUE),
                                  countSelected(studentAnswer.v, correctSet, FALSE),
                                  Cardinality(correctSet))

\* mutant of singleSelectionCorrect: the submitted ids compared as a set
singleSelectionSetEquality(studentAnswer, correctSet) ==
    SetOf(studentAnswer) = correctSet

singleSelectionCorrect(studentAnswer, correctSet) ==
    Length(studentAnswer) = 1 /\ Has(correctSet, Index(studentAnswer, 0))

singleSelectionResult(isCorrect) ==
    Graded(isCorrect, IF isCorrect THEN One ELSE Zero,
           IF isCorrect THEN "Correcto!"
           ELSE "Incorrecto. Esa no es la respuesta correcta",
           NoDetails)

\* the single-selection branch
singleSelection(correctSet, studentAnswer) ==
    IF IsNullish(studentAnswer) THEN Throws("TypeError")
    ELSE singleSelectionResult(singleSelectionCorrect(studentAnswer, correctSet))

multipleChoiceAgainst(correctSet, content, studentAnswer) ==
    IF Truthy(Prop(content, "allowMultiple"))
    THEN multipleSelection(correctSet, studentAnswer)
    ELSE singleSelection(correctSet, studentAnswer)

gradeMultipleChoice(content, solution, studentAnswer) ==
    IF IsNullish(solution) THEN Throws("TypeError")
    ELSE IF SetThrows(Prop(solution, "correctOptionIds")) THEN Throws("TypeError")
    ELSE IF SetThrows(studentAnswer) THEN Throws("TypeError")
    ELSE IF IsNullish(content) THEN Throws("TypeError")
    ELSE multipleChoiceAgainst(SetOf(Prop(solution, "correctOptionIds")), content,
                               studentAnswer)

\* mutant of bothEquivalent: the equivalence check left out
bothParse(studentFormula, targetFormula) == studentFormula.ok /\ targetFormula.ok

bothEquivalent(studentFormula, targetFormula) ==
    studentFormula.ok /\ targetFormula.ok
    /\ checkEquivalence(studentFormula.formula, targetFormula.formula)

\* the try block inside the loop of the three formula-list graders: TRUE iff
\* both texts parse and the formulas are equivalent, FALSE also when a parse
\* throws (the catch is empty and the loop goes on)
equivalentOrSkipped(answerText, candidate) ==
    bothEquivalent(parse(answerText), parseValue(candidate))

\* the loop of gradeSymbolArrangement from candidate i on
RECURSIVE symbolArrangementLoop(_, _, _)
symbolArrangementLoop(candidates, i, normalizedAnswer) ==
    IF i > Len(candidates)
    THEN Graded(FALSE, Zero, "Incorrecto. La formula que construiste no es la esperada",
                NoDetails)
    ELSE IF candidates[i].t # "string" THEN Throws("TypeError")
    ELSE IF normalizedAnswer = removeWhitespace(candidates[i].v)
    THEN Graded(TRUE, One, "Correcto! Has construido la formula correctamente",
                NoDetails)
    ELSE IF equivalentOrSkipped(normalizedAnswer,
                                Str(removeWhitespace(candidates[i].v)))
    THEN Graded(TRUE, One, "Correcto! Tu formula es logicamente equivalente",
                NoDetails)
    ELSE symbolArrangementLoop(candidates, i + 1, normalizedAnswer)

gradeSymbolArrangement(solution, studentAnswer) ==
    IF studentAnswer.t # "string" THEN Throws("TypeError")
    ELSE IF IsNullish(solution) THEN Throws("TypeError")
    ELSE IF ~IsIterable(Prop(solution, "correctFormulas")) THEN Throws("TypeError")
    ELSE symbolArrangementLoop(Elements(Prop(solution, "correctFormulas")), 1,
                               removeWhitespace(studentAnswer.v))

\* the loop of gradeFormulation from candidate i on
RECURSIVE formulationLoop(_, _, _)
formulationLoop(candidates, i, normalizedAnswer) ==
    IF i > Len(candidates)
    THEN Graded(FALSE, Zero, "Incorrecto. Tu traduccion no captura el significado",
                NoDetails)
    ELSE IF candidates[i].t # "string" THEN Throws("TypeError")
    ELSE IF normalizedAnswer = trim(candidates[i].v)
    THEN Graded(TRUE, One, "Excelente! Tu traduccion es correcta", NoDetails)
    ELSE IF equivalentOrSkipped(normalizedAnswer, candidates[i])
    THEN Graded(TRUE, One, "Correcto! Tu formula es logicamente equivalente a la esperada",
                NoDetails)
    ELSE formulationLoop(candidates, i + 1, normalizedAnswer)

gradeFormulation(solution, studentAnswer) ==
    IF studentAnswer.t # "string" THEN Throws("TypeError")
    ELSE IF IsNullish(solution) THEN Throws("TypeError")
    ELSE IF ~IsIterable(Prop(solution, "correctFormulas")) THEN Throws("TypeError")
    ELSE formulationLoop(Elements(Prop(solution, "correctFormulas")), 1,
                         trim(studentAnswer.v))

\* a return of gradeNormalForm: its feedback reads content.targetForm, which
\* throws when content is nullish
\* ${content.targetForm} in a template literal
targetFormText(content) ==
    CASE Prop(content, "targetForm") = Str(<<"C", "N", "F">>) -> "CNF"
      [] Prop(content, "targetForm") = Str(<<"D", "N", "F">>) -> "DNF"
      [] Prop(content, "targetForm") = Str(<<"N", "N", "F">>) -> "NNF"
      [] OTHER -> "undefined"

\* mutant of normalFormReturn: the verdict stands only when the form asked
\* for is CNF
normalFormReturnCNFOnly(content, isCorrect, feedback) ==
    IF IsNullish(content) THEN Throws("TypeError")
    ELSE Graded(isCorrect /\ targetFormText(content) = "CNF",
                IF isCorrect /\ targetFormText(content) = "CNF" THEN One ELSE Zero,
                feedback \o targetFormText(content), NoDetails)

normalFormReturn(content, isCorrect, feedback) ==
    IF IsNullish(content) THEN Throws("TypeError")
    ELSE Graded(isCorrect, IF isCorrect THEN One ELSE Zero,
                feedback \o targetFormText(content), NoDetails)

\* the loop of gradeNormalForm from candidate i on
RECURSIVE normalFormLoop(_, _, _, _)
normalFormLoop(content, candidates, i, normalizedAnswer) ==
    IF i > Len(candidates)
    THEN normalFormReturn(content, FALSE,
                          "Incorrecto. Tu respuesta no es equivalente o no esta en ")
    ELSE IF candidates[i].t # "string" THEN Throws("TypeError")
    ELSE IF normalizedAnswer = trim(candidates[i].v)
    THEN normalFormReturn(content, TRUE, "Correcto! Has convertido correctamente a ")
    ELSE IF equivalentOrSkipped(normalizedAnswer, candidates[i])
    THEN normalFormReturn(content, TRUE, "Correcto! Es valida tu ")
    ELSE normalFormLoop(content, candidates, i + 1, normalizedAnswer)

gradeNormalForm(content, solution, studentAnswer) ==
    IF studentAnswer.t # "string" THEN Throws("TypeError")
    ELSE IF IsNullish(solution) THEN Throws("TypeError")
    ELSE IF ~IsIterable(Prop(solution, "correctFormulas")) THEN Throws("TypeError")
    ELSE normalFormLoop(content, Elements(Prop(solution, "correctFormulas")), 1,
                        trim(studentAnswer.v))

validationResult(isCorrect, solution) ==
    Graded(isCorrect, IF isCorrect THEN One ELSE Zero,
           IF isCorrect
           THEN (IF Truthy(Prop(solution, "isValid"))
                 THEN "Correcto! El argumento es valido"
                 ELSE "Correcto! El argumento es invalido")
           ELSE (IF Truthy(Prop(solution, "isValid"))
                 THEN "Incorrecto. El argumento si es valido"
                 ELSE "Incorrecto. El argumento es invalido; existe un contraejemplo"),
           [correctAnswer |-> Prop(solution, "isValid"),
            counterexample |-> Prop(solution, "counterexample")])

\* mutant of validationCorrect: the submitted verdict taken as it is
validationAccepted(solution, studentAnswer) == Truthy(Prop(studentAnswer, "isValid"))

\* studentAnswer.isValid === solution.isValid
validationCorrect(solution, studentAnswer) ==
    StrictEquals(Prop(studentAnswer, "isValid"), Prop(solution, "isValid"))

gradeValidation(solution, studentAnswer) ==
    IF IsNullish(studentAnswer) \/ IsNullish(solution) THEN Throws("TypeError")
    ELSE validationResult(validationCorrect(solution, studentAnswer), solution)

\* column?.[row]
optionalIndex(column, row) ==
    IF IsNullish(column) \/ row.t # "number" THEN Undefined
    ELSE Index(column, row.v)

\* table[cell.column]?.[cell.row] for a non-nullish table and cell
cellValue(table, cell) ==
    optionalIndex(Prop(table, KeyOf(Prop(cell, "column"))), Prop(cell, "row"))

\* what reading one hidden cell throws on
cellThrows(values, studentAnswer, cell) ==
    IsNullish(cell) \/ IsNullish(values) \/ IsNullish(studentAnswer)

\* studentValue === correctValue
cellMatches(values, studentAnswer, cell) ==
    StrictEquals(cellValue(studentAnswer, cell), cellValue(values, cell))

RECURSIVE countCorrectCells(_, _, _)
countCorrectCells(cells, values, studentAnswer) ==
    IF cells = <<>> THEN 0
    ELSE (IF cellMatches(values, studentAnswer, Head(cells)) THEN 1 ELSE 0)
         + countCorrectCells(Tail(cells), values, studentAnswer)

\* mutant of truthTableScore: all or nothing
truthTableAllOrNothing(correctCells, totalCells) ==
    IF correctCells = totalCells THEN One ELSE Zero

truthTableScore(correctCells, totalCells) ==
    IF totalCells > 0 THEN Divide(correctCells, totalCells) ELSE Zero

truthTableResult(isCorrect, correctCells, totalCells) ==
    Graded(isCorrect, truthTableScore(correctCells, totalCells),
           IF isCorrect THEN "Perfecto! Todas las celdas son correctas"
           ELSE IF correctCells > 0 THEN "Casi"
           ELSE "Incorrecto. Revisa los valores de la tabla",
           [correctCells |-> correctCells, totalCells |-> totalCells])

truthTableCounted(correctCells, totalCells) ==
    truthTableResult(correctCells = totalCells, correctCells, totalCells)

truthTableOver(cells, solution, studentAnswer) ==
    IF cells # <<>> /\ IsNullish(solution) THEN Throws("TypeError")
    ELSE IF \E k \in 1..Len(cells) :
               cellThrows(Prop(solution, "values"), studentAnswer, cells[k])
    THEN Throws("TypeError")
    ELSE truthTableCounted(
            countCorrectCells(cells, Prop(solution, "values"), studentAnswer),
            Len(cells))

gradeTruthTable(content, solution, studentAnswer) ==
    IF IsNullish(content) THEN Throws("TypeError")
    ELSE IF ~IsIterable(Prop(content, "hiddenCells")) THEN Throws("TypeError")
    ELSE truthTableOver(Elements(Prop(content, "hiddenCells")), solution,
                        studentAnswer)

identifyFallacyResult(isCorrect) ==
    Graded(isCorrect, IF isCorrect THEN One ELSE Zero,
           IF isCorrect THEN "Correcto! Identificaste la falacia correctamente"
           ELSE "Incorrecto. Esa no es la falacia presente en el argumento",
           NoDetails)

gradeIdentifyFallacy(solution, studentAnswer) ==
    IF IsNullish(solution) THEN Throws("TypeError")
    ELSE identifyFallacyResult(
            StrictEquals(studentAnswer, Prop(solution, "correctFallacyId")))

\* the switch of gradeSubmission
gradeBranch(ex, studentAnswer) ==
    CASE ex.type = "EQUIVALENCE" -> gradeEquivalence(ex, studentAnswer)
      [] ex.type = "MULTIPLE_CHOICE" ->
            gradeMultipleChoice(ex.content, ex.solution, studentAnswer)
      [] ex.type = "SYMBOL_ARRANGEMENT" ->
            gradeSymbolArrangement(ex.solution, studentAnswer)
      [] ex.type = "FORMULATION" -> gradeFormulation(ex.solution, studentAnswer)
      [] ex.type = "VALIDATION" -> gradeValidation(ex.solution, studentAnswer)
      [] ex.type = "TRUTH_TABLE" ->
            gradeTruthTable(ex.content, ex.solution, studentAnswer)
      [] ex.type = "NORMAL_FORM" ->
            gradeNormalForm(ex.content, ex.solution, studentAnswer)
      [] ex.type = "IDENTIFY_FALLACY" ->
            gradeIdentifyFallacy(ex.solution, studentAnswer)
      [] OTHER -> Graded(FALSE, Zero, "Tipo de ejercicio no soportado", NoDetails)

\* mutant of errorCaught: no catch, the throw leaves gradeSubmission
errorPropagated(branch) == branch

\* the catch of gradeSubmission
errorCaught(branch) ==
    IF branch.kind = "throw"
    THEN Graded(FALSE, Zero, "Error al evaluar", NoDetails)
    ELSE branch

\* gradeSubmission: the switch inside try, the catch turning a throw into a result
gradeSubmission(ex, studentAnswer) == errorCaught(gradeBranch(ex, studentAnswer))

(* Inputs of the grader *)

\* longest list of option ids a student submits (repetitions allowed)
MaxAnswerLen == 3

\* longest list of hidden cells of a truth-table exercise
MaxHidden == 2

\* longest list of accepted formulas of a solution
MaxCandidates == 2

SeqsUpTo(S, n) == UNION {[1..k -> S] : k \in 0..n}

\* formula texts a teacher stores or a student types: well formed, with
\* surrounding or inner white space, truncated, with an unknown character, empty
AnswerTexts ==
    { <<"P", "-", ">", "Q">>,
      <<"~", "P", " ", "|", " ", "Q">>,
      <<"P">>,
      <<" ", "P", "&", "P", " ">>,
      <<"P", "&", "Q">>,
      <<"P", " ", "Q">>,
      <<"P", "Q">>,
      <<"P", "&">>,
      <<"P", "#">>,
      <<>> }

CandidateTexts ==
    { <<"P", "-", ">", "Q">>,
      <<"~", "P", " ", "|", " ", "Q">>,
      <<"P">>,
      <<" ", "P", "&", "P", " ">>,
      <<"P", " ", "Q">>,
      <<"P", "Q">>,
      <<"P", "&">> }

\* values of the wrong shape for a content, a solution or an answer
Malformed == {Undefined, Null, Bool(TRUE), Str(<<>>), Arr(<<>>), Obj(<<>>)}

ExerciseTypes ==
    {"EQUIVALENCE", "MULTIPLE_CHOICE", "SYMBOL_ARRANGEMENT", "FORMULATION",
     "VALIDATION", "TRUTH_TABLE", "PROOF", "NORMAL_FORM", "IDENTIFY_FALLACY"}

Exercise(type, legacyFormula, content, solution) ==
    [type |-> type, formula |-> legacyFormula, content |-> content,
     solution |-> solution]

OptionIds == {Str(<<"a">>), Str(<<"b">>), Str(<<"c">>), Str(<<"d">>)}

\* correctOptionIds a teacher stores: every subset of the options in order,
\* and a list that repeats an id
CorrectIdLists ==
    {ids \in SeqsUpTo(OptionIds, 4) :
        \A i, j \in 1..Len(ids) :
            i < j => CharCode(ids[i].v[1]) < CharCode(ids[j].v[1])}
    \cup {<<Str(<<"a">>), Str(<<"a">>)>>}

MultipleChoiceContents ==
    {Obj([allowMultiple |-> Bool(TRUE)]), Obj([allowMultiple |-> Bool(FALSE)]),
     Obj(<<>>)}

\* the truth table of ~P: columns P and result, rows 0 and 1
ColumnP == <<"P">>

ColumnResult == <<"r", "e", "s", "u", "l", "t">>

Cell(row, column) == Obj([row |-> Num(row), column |-> Str(column)])

\* cells a teacher hides; row 2 is one for which no value is stored
HiddenCells == {Cell(row, column) : row \in 0..2, column \in {ColumnP, ColumnResult}}

BoolArray(bs) == Arr([i \in 1..Len(bs) |-> Bool(bs[i])])

TruthTableSolutions ==
    {Obj([values |-> Obj([c \in {ColumnP, ColumnResult} |->
                            IF c = ColumnP THEN BoolArray(<<TRUE, FALSE>>)
                            ELSE BoolArray(<<FALSE, TRUE>>)])]),
     Obj([values |-> Obj([c \in {ColumnP} |-> BoolArray(<<TRUE, FALSE>>)])])}

SubmittedColumns ==
    {BoolArray(<<TRUE, FALSE>>), BoolArray(<<FALSE, TRUE>>), BoolArray(<<TRUE>>)}

\* what a student submits: a column may be left out
TruthTableAnswers ==
    UNION {{Obj(f) : f \in [cols -> SubmittedColumns]} :
              cols \in SUBSET {ColumnP, ColumnResult}}

\* arguments of a validation exercise: modus ponens (valid), affirming the
\* consequent (invalid), a tautology from no premises (valid)
ValidationContents ==
    {Obj([premises |-> Arr(<<Str(<<"P", "-", ">", "Q">>), Str(<<"P">>)>>),
          conclusion |-> Str(<<"Q">>)]),
     Obj([premises |-> Arr(<<Str(<<"P", "-", ">", "Q">>), Str(<<"Q">>)>>),
          conclusion |-> Str(<<"P">>)]),
     Obj([premises |-> Arr(<<>>),
          conclusion |-> Str(<<"P", "|", "~", "P">>)])}

Counterexample == Obj([name \in {<<"P">>, <<"Q">>} |-> Bool(name = <<"Q">>)])

ValidationSolutions ==
    {Obj([isValid |-> Bool(b), counterexample |-> c]) :
        b \in BOOLEAN, c \in {Undefined, Counterexample}}
    \cup {Obj(<<>>)}

ValidationAnswers ==
    {Obj([isValid |-> Bool(b)]) : b \in BOOLEAN} \cup {Obj(<<>>), Null}

NormalFormContents ==
    {Obj([targetForm |-> Str(form)]) :
        form \in {<<"C", "N", "F">>, <<"D", "N", "F">>, <<"N", "N", "F">>}}

(* The grader as a state machine: one call of gradeSubmission per behaviour, *)
(* its arguments drawn per exercise type, its return value kept in result   *)

InitGrader ==
    /\ typed = NoInput
    /\ formula = NoFormula
    /\ out = None
    /\ exercise = Idle
    /\ answer = Idle
    /\ result = Idle
    /\ parser = NewParser

Submit(ex, studentAnswer) ==
    /\ exercise' = ex
    /\ answer' = studentAnswer
    /\ result' = gradeSubmission(ex, studentAnswer)
    /\ UNCHANGED <<typed, formula, out, parser>>

SubmitEquivalence ==
    /\ result = Idle
    /\ \E legacy \in {Undefined, Str(<<>>), Str(<<"P", "-", ">", "Q">>), Str(<<"P", "&">>)},
          content \in {Null, Obj(<<>>)}
                      \cup {Obj([targetFormula |-> Str(t)]) : t \in CandidateTexts},
          studentAnswer \in {Str(t) : t \in AnswerTexts} \cup {Null, Arr(<<>>)} :
           Submit(Exercise("EQUIVALENCE", legacy, content, Obj(<<>>)), studentAnswer)

SubmitMultipleChoice ==
    /\ result = Idle
    /\ \E content \in MultipleChoiceContents,
          ids \in CorrectIdLists,
          studentAnswer \in SeqsUpTo(OptionIds, MaxAnswerLen) :
           Submit(Exercise("MULTIPLE_CHOICE", Undefined, content,
                           Obj([correctOptionIds |-> Arr(ids)])),
                  Arr(studentAnswer))

SubmitFormulaList ==
    /\ result = Idle
    /\ \E type \in {"SYMBOL_ARRANGEMENT", "FORMULATION", "NORMAL_FORM"},
          content \in NormalFormContents,
          candidates \in SeqsUpTo({Str(t) : t \in CandidateTexts}, MaxCandidates),
          text \in AnswerTexts :
           /\ type # "NORMAL_FORM" => content = Obj([targetForm |-> Str(<<"C", "N", "F">>)])
           /\ Submit(Exercise(type, Undefined, content,
                              Obj([correctFormulas |-> Arr(candidates)])),
                     Str(text))

SubmitValidation ==
    /\ result = Idle
    /\ \E content \in ValidationContents,
          solution \in ValidationSolutions,
          studentAnswer \in ValidationAnswers :
           Submit(Exercise("VALIDATION", Undefined, content, solution), studentAnswer)

SubmitTruthTable ==
    /\ result = Idle
    /\ \E cells \in SeqsUpTo(HiddenCells, MaxHidden),
          solution \in TruthTableSolutions,
          studentAnswer \in TruthTableAnswers :
           Submit(Exercise("TRUTH_TABLE", Undefined,
                           Obj([formula |-> Str(<<"~", "P">>), hiddenCells |-> Arr(cells)]),
                           solution),
                  studentAnswer)

SubmitIdentifyFallacy ==
    /\ result = Idle
    /\ \E correct \in OptionIds,
          studentAnswer \in OptionIds \cup {Null} :
           Submit(Exercise("IDENTIFY_FALLACY", Undefined, Obj(<<>>),
                           Obj([correctFallacyId |-> correct])),
                  studentAnswer)

\* any type tag, also PROOF and a tag that is no exercise type, with content,
\* solution and answer of the wrong shape
SubmitMalformed ==
    /\ result = Idle
    /\ \E type \in ExerciseTypes \cup {"ESSAY"},
          content \in Malformed,
          solution \in Malformed,
          studentAnswer \in Malformed :
           Submit(Exercise(type, Undefined, content, solution), studentAnswer)

NextGrader ==
    \/ SubmitEquivalence
    \/ SubmitMultipleChoice
    \/ SubmitFormulaList
    \/ SubmitValidation
    \/ SubmitTruthTable
    \/ SubmitIdentifyFallacy
    \/ SubmitMalformed

SpecGrader == InitGrader /\ [][NextGrader]_vars

(* Submission endpoint: POST /api/submissions *)

Response(status, body) == [kind |-> "response", status |-> status, body |-> body]

\* studentTable.variables.length === correctTable.variables.length &&
\* studentTable.variables.every(v => correctTable.variables.includes(v))
sameVariables(studentTable, correctTable) ==
    /\ Len(studentTable.variables) = Len(correctTable.variables)
    /\ \A i \in 1..Len(studentTable.variables) :
          \E j \in 1..Len(correctTable.variables) :
             correctTable.variables[j] = studentTable.variables[i]

\* studentTable.rows.every((row, i) => row.result === correctTable.rows[i].result)
sameResults(studentTable, correctTable) ==
    \A i \in 1..Len(studentTable.rows) :
        studentTable.rows[i].result = correctTable.rows[i].result

\* the comparison of the two truth tables; isCorrect stays false when the
\* variables differ
tablesAgree(studentTable, correctTable) ==
    IF sameVariables(studentTable, correctTable)
    THEN sameResults(studentTable, correctTable)
    ELSE FALSE

created(isCorrect, feedback) ==
    Response(201, [submission |-> IF isCorrect THEN "CORRECT" ELSE "INCORRECT",
                   isCorrect |-> isCorrect,
                   feedback |-> feedback])

evaluated(isCorrect) ==
    created(isCorrect, IF isCorrect THEN "equivalent" ELSE "not the same truth table")

\* the inner try block: parse both texts, compare the tables; a thrown error
\* leaves isCorrect false
evaluateAnswer(studentParsed, correctParsed) ==
    IF ~studentParsed.ok \/ ~correctParsed.ok
    THEN created(FALSE, "parse error")
    ELSE evaluated(tablesAgree(generateTruthTable(studentParsed.formula),
                               generateTruthTable(correctParsed.formula)))

\* the handler from the session check to the response
postSubmission(request, stored) ==
    IF ~request.session THEN Response(401, "No autorizado")
    ELSE IF request.role # "STUDENT" THEN Response(403, "Solo estudiantes")
    ELSE IF ~request.exerciseId \/ ~request.answer.given \/ request.answer.text = <<>>
    THEN Response(400, "requeridos")
    ELSE IF ~stored.found THEN Response(404, "no encontrado")
    ELSE IF ~stored.enrolled THEN Response(403, "no inscrito")
    ELSE evaluateAnswer(parse(trim(request.answer.text)), parse(stored.formula))

\* what the request carries and who sends it
SubmittedTexts ==
    OtherTexts
    \cup { <<>>,
           <<" ", "Q", "-", ">", "P", " ">>,
           <<"Q", "|", "~", "Q">>,
           <<"P", "&", "(", "Q", "|", "~", "Q", ")">>,
           <<"P", " ", "-", ">">>,
           <<"P", " ", "#">> }

Requests ==
    [session : BOOLEAN, role : {"none", "TEACHER", "STUDENT"},
     exerciseId : BOOLEAN,
     answer : {NoInput} \cup {Given(text) : text \in SubmittedTexts}]

\* what the database holds for the exercise and the classroom
StoredExercises ==
    [found : BOOLEAN, enrolled : BOOLEAN,
     formula : OtherTexts \cup {<<"P", "|", "~", "P", ")">>}]

InitEndpoint ==
    /\ typed = NoInput
    /\ formula = NoFormula
    /\ out = None
    /\ exercise = Idle
    /\ answer = Idle
    /\ result = Idle
    /\ parser = NewParser

Post ==
    /\ result = Idle
    /\ \E request \in Requests, stored \in StoredExercises :
          /\ answer' = request
          /\ exercise' = stored
          /\ result' = postSubmission(request, stored)
    /\ UNCHANGED <<typed, formula, out, parser>>

NextEndpoint == Post

SpecEndpoint == InitEndpoint /\ [][NextEndpoint]_vars

(* One parser instance used for call after call *)

\* the texts handed to the instance, well-formed and malformed
InstanceTexts == MalformedTexts \cup OtherTexts

InitParser ==
    /\ typed = NoInput
    /\ formula = NoFormula
    /\ out = None
    /\ exercise = Idle
    /\ answer = Idle
    /\ result = Idle
    /\ parser = NewParser

called(before, call) ==
    /\ parser' = call.instance
    /\ out' = [op |-> "parser.parse", before |-> before, outcome |-> call.outcome]

\* parser.parse(text) on the instance as the calls before left it
ParseAgain ==
    /\ \E text \in InstanceTexts :
          /\ typed' = Given(text)
          /\ called(parser, parseBy(parser, text))
    /\ UNCHANGED <<formula, exercise, answer, result>>

NextParser == ParseAgain

SpecParser == InitParser /\ [][NextParser]_vars

(* The calls of the rewriting passes: which calls a call makes before it returns *)

CallOf(fn, arg) == [op |-> "call", fn |-> fn, arg |-> arg]

\* eliminateImplications(f): one call per operand
eliminateImplicationsCalls(f) ==
    CASE f.type = "ATOM" -> {}
      [] f.type = "NOT" -> {CallOf("eliminateImplications", f.operand)}
      [] f.type = "BINARY" -> {CallOf("eliminateImplications", f.left),
                               CallOf("eliminateImplications", f.right)}

\* mutant of pushNegationsInwardCalls: a double negation is handed on whole
pushNegationsInwardCallsKeepNot(f) ==
    CASE f.type = "ATOM" -> {}
      [] f.type = "NOT" -> IF f.operand.type = "ATOM" THEN {}
                           ELSE {CallOf("pushNegationsInward", f)}
      [] f.type = "BINARY" -> {CallOf("pushNegationsInward", f.left),
                               CallOf("pushNegationsInward", f.right)}

\* pushNegationsInward(f): on the operand of a double negation, on the
\* De Morgan rewriting of a negated AND or OR, on both operands of a binary
pushNegationsInwardCalls(f) ==
    CASE f.type = "ATOM" -> {}
      [] f.type = "NOT" ->
            (CASE f.operand.type = "ATOM" -> {}
               [] f.operand.type = "NOT" ->
                     {CallOf("pushNegationsInward", f.operand.operand)}
               [] f.operand.type = "BINARY" ->
                     IF f.operand.operator = "AND"
                     THEN {CallOf("pushNegationsInward", deMorganAnd(f.operand))}
                     ELSE IF f.operand.operator = "OR"
                     THEN {CallOf("pushNegationsInward", deMorganOr(f.operand))}
                     ELSE {})
      [] f.type = "BINARY" -> {CallOf("pushNegationsInward", f.left),
                               CallOf("pushNegationsInward", f.right)}

\* distributeOrOverAnd(f): on the two disjunctions it builds
distributeOrOverAndCalls(f) ==
    IF f.type # "BINARY" \/ f.operator # "OR" THEN {}
    ELSE IF f.right.type = "BINARY" /\ f.right.operator = "AND"
    THEN {CallOf("distributeOrOverAnd", Binary("OR", f.left, f.right.left)),
          CallOf("distributeOrOverAnd", Binary("OR", f.left, f.right.right))}
    ELSE IF f.left.type = "BINARY" /\ f.left.operator = "AND"
    THEN {CallOf("distributeOrOverAnd", Binary("OR", f.left.left, f.right)),
          CallOf("distributeOrOverAnd", Binary("OR", f.left.right, f.right))}
    ELSE {}

\* distributeAndOverOr(f): on the two conjunctions it builds
distributeAndOverOrCalls(f) ==
    IF f.type # "BINARY" \/ f.operator # "AND" THEN {}
    ELSE IF f.right.type = "BINARY" /\ f.right.operator = "OR"
    THEN {CallOf("distributeAndOverOr", Binary("AND", f.left, f.right.left)),
          CallOf("distributeAndOverOr", Binary("AND", f.left, f.right.right))}
    ELSE IF f.left.type = "BINARY" /\ f.left.operator = "OR"
    THEN {CallOf("distributeAndOverOr", Binary("AND", f.left.left, f.right)),
          CallOf("distributeAndOverOr", Binary("AND", f.left.right, f.right))}
    ELSE {}

\* toCNFRecursive(f): on both operands, then the distribution on the
\* disjunction of what they returned
toCNFRecursiveCalls(f) ==
    IF f.type \in {"ATOM", "NOT"} THEN {}
    ELSE {CallOf("toCNFRecursive", f.left), CallOf("toCNFRecursive", f.right)}
         \cup IF f.operator = "OR"
              THEN {CallOf("distributeOrOverAnd",
                           Binary("OR", toCNFRecursive(f.left), toCNFRecursive(f.right)))}
              ELSE {}

toDNFRecursiveCalls(f) ==
    IF f.type \in {"ATOM", "NOT"} THEN {}
    ELSE {CallOf("toDNFRecursive", f.left), CallOf("toDNFRecursive", f.right)}
         \cup IF f.operator = "AND"
              THEN {CallOf("distributeAndOverOr",
                           Binary("AND", toDNFRecursive(f.left), toDNFRecursive(f.right)))}
              ELSE {}

\* toNNF(f), toCNF(f), toDNF(f): the passes one after the other
toNNFCalls(f) ==
    {CallOf("eliminateImplications", f),
     CallOf("pushNegationsInward", eliminateImplications(f))}

toCNFCalls(f) == toNNFCalls(f) \cup {CallOf("toCNFRecursive", toNNF(f))}

toDNFCalls(f) == toNNFCalls(f) \cup {CallOf("toDNFRecursive", toNNF(f))}

\* the calls a call makes before it returns
callsOf(call) ==
    CASE call.fn = "eliminateImplications" -> eliminateImplicationsCalls(call.arg)
      [] call.fn = "pushNegationsInward" -> pushNegationsInwardCalls(call.arg)
      [] call.fn = "distributeOrOverAnd" -> distributeOrOverAndCalls(call.arg)
      [] call.fn = "distributeAndOverOr" -> distributeAndOverOrCalls(call.arg)
      [] call.fn = "toCNFRecursive" -> toCNFRecursiveCalls(call.arg)
      [] call.fn = "toDNFRecursive" -> toDNFRecursiveCalls(call.arg)
      [] call.fn = "toNNF" -> toNNFCalls(call.arg)
      [] call.fn = "toCNF" -> toCNFCalls(call.arg)
      [] call.fn = "toDNF" -> toDNFCalls(call.arg)

\* the formulas the passes are called on
RewrittenTexts == SampleTexts \cup FlatTexts \cup OtherTexts

InitRewrite ==
    /\ typed = NoInput
    /\ formula = NoFormula
    /\ out = None
    /\ exercise = Idle
    /\ answer = Idle
    /\ result = Idle
    /\ parser = NewParser

\* toNNF, toCNF or toDNF is called on a parsed formula
EnterPass ==
    /\ out = None
    /\ \E text \in RewrittenTexts, fn \in {"toNNF", "toCNF", "toDNF"} :
          out' = CallOf(fn, parse(text).formula)
    /\ UNCHANGED <<typed, formula, exercise, answer, result, parser>>

\* the running call makes one of its calls
Descend ==
    /\ out.op = "call"
    /\ \E call \in callsOf(out) : out' = call
    /\ UNCHANGED <<typed, formula, exercise, answer, result, parser>>

NextRewrite == EnterPass \/ Descend

SpecRewrite == InitRewrite /\ [][NextRewrite]_vars

\* a call that can make a call does make one: the passes are not suspended
SpecRewriteFair == SpecRewrite /\ WF_vars(NextRewrite)

(* The grader of grader.ts: gradeSubmission as the submission route imports *)
(* it from '@/lib/logic/grader'; its GradingResult carries no score         *)

Verdict(isCorrect, feedback) ==
    [kind |-> "return", isCorrect |-> isCorrect, feedback |-> feedback]

\* exercise.formula || exercise.content.targetFormula, content read without ?.
legacyTargetFormulaStr(ex) ==
    IF Truthy(ex.formula) THEN ex.formula ELSE Prop(ex.content, "targetFormula")

legacyVerdict(studentFormula, targetFormula) ==
    IF ~studentFormula.ok \/ ~targetFormula.ok THEN Throws("Error")
    ELSE IF checkEquivalence(studentFormula.formula, targetFormula.formula)
    THEN Verdict(TRUE, "Correcto! Tu formula es logicamente equivalente")
    ELSE Verdict(FALSE, "Incorrecto. Tu formula no es equivalente")

\* the try block of the gradeEquivalence of grader.ts from the test of
\* targetFormulaStr on
legacyAgainst(target, studentAnswer) ==
    IF ~Truthy(target)
    THEN Verdict(FALSE, "Error: Configuracion de ejercicio invalida")
    ELSE IF studentAnswer.t # "string" THEN Throws("TypeError")
    ELSE legacyVerdict(parse(trim(studentAnswer.v)), parseValue(target))

legacyTry(ex, studentAnswer) ==
    IF ~Truthy(ex.formula) /\ IsNullish(ex.content) THEN Throws("TypeError")
    ELSE legacyAgainst(legacyTargetFormulaStr(ex), studentAnswer)

\* the catch of the gradeEquivalence of grader.ts
legacyCaught(body) ==
    IF body.kind = "throw" THEN Verdict(FALSE, "Error de sintaxis") ELSE body

legacyGradeEquivalence(ex, studentAnswer) == legacyCaught(legacyTry(ex, studentAnswer))

\* the switch of the gradeSubmission of grader.ts:
\* case 'EQUIVALENCE': default: return gradeEquivalence(exercise, studentAnswer)
legacyGradeSubmission(ex, studentAnswer) ==
    CASE ex.type = "EQUIVALENCE" -> legacyGradeEquivalence(ex, studentAnswer)
      [] OTHER -> legacyGradeEquivalence(ex, studentAnswer)

(* The two dispatchers called with every type tag: one call per behaviour, *)
(* the module called kept in out                                           *)

\* the tags gradeSubmission of analyzer.ts has a case for
HandledTypes ==
    {"EQUIVALENCE", "MULTIPLE_CHOICE", "SYMBOL_ARRANGEMENT", "FORMULATION",
     "VALIDATION", "TRUTH_TABLE", "NORMAL_FORM", "IDENTIFY_FALLACY"}

DispatchedTypes == ExerciseTypes \cup {"ESSAY"}

DispatchedFormulas == {Undefined, Str(<<"P">>), Str(<<"P", "&">>)}

DispatchedContents ==
    {Undefined, Obj(<<>>), Obj([targetFormula |-> Str(<<"P", "-", ">", "Q">>)])}

DispatchedAnswers == {Str(t) : t \in AnswerTexts} \cup {Null, Arr(<<>>)}

InitDispatch ==
    /\ typed = NoInput
    /\ formula = NoFormula
    /\ out = None
    /\ exercise = Idle
    /\ answer = Idle
    /\ result = Idle
    /\ parser = NewParser

Dispatched(from, ex, studentAnswer, graded) ==
    /\ out' = [op |-> "gradeSubmission", from |-> from]
    /\ exercise' = ex
    /\ answer' = studentAnswer
    /\ result' = graded
    /\ UNCHANGED <<typed, formula, parser>>

\* gradeSubmission of analyzer.ts on an exercise of a type it has no case for
SubmitUnsupported ==
    /\ result = Idle
    /\ \E type \in DispatchedTypes \ HandledTypes,
          legacy \in DispatchedFormulas,
          content \in DispatchedContents,
          studentAnswer \in DispatchedAnswers :
           Dispatched("analyzer", Exercise(type, legacy, content, Obj(<<>>)), studentAnswer,
                      gradeSubmission(Exercise(type, legacy, content, Obj(<<>>)), studentAnswer))

\* gradeSubmission of grader.ts on an exercise of any type
SubmitLegacy ==
    /\ result = Idle
    /\ \E type \in DispatchedTypes,
          legacy \in DispatchedFormulas,
          content \in DispatchedContents,
          studentAnswer \in DispatchedAnswers :
           Dispatched("grader", Exercise(type, legacy, content, Obj(<<>>)), studentAnswer,
                      legacyGradeSubmission(Exercise(type, legacy, content, Obj(<<>>)), studentAnswer))

NextDispatch ==
    \/ SubmitUnsupported
    \/ SubmitLegacy

SpecDispatch == InitDispatch /\ [][NextDispatch]_vars

(* Properties of gradeSubmission, stated over the call kept in exercise, *)
(* answer and result                                                      *)

Called == result.kind # "idle"

\* the exception reached a catch: the one of gradeSubmission, or the one of
\* gradeEquivalence
exceptionCaught(ex, studentAnswer) ==
    \/ gradeBranch(ex, studentAnswer).kind = "throw"
    \/ /\ ex.type = "EQUIVALENCE"
       /\ equivalenceAgainst(targetFormulaStr(ex), studentAnswer).kind = "throw"

FormulaListTypes == {"SYMBOL_ARRANGEMENT", "FORMULATION", "NORMAL_FORM"}

\* a call of one of the three formula-list graders on values of the declared
\* types: a string answer, a list of strings as solution.correctFormulas
FormulaListCall ==
    /\ Called
    /\ exercise.type \in FormulaListTypes
    /\ answer.t = "string"
    /\ ~IsNullish(exercise.solution)
    /\ Prop(exercise.solution, "correctFormulas").t = "array"
    /\ \A k \in 1..Len(Prop(exercise.solution, "correctFormulas").v) :
          Prop(exercise.solution, "correctFormulas").v[k].t = "string"
    /\ ~IsNullish(exercise.content)

correctFormulas == Prop(exercise.solution, "correctFormulas").v

\* the normalisation a grader applies before it compares strings
normalized(type, text) ==
    IF type = "SYMBOL_ARRANGEMENT" THEN removeWhitespace(text) ELSE trim(text)

\* the text of an entry the grader hands to the parser
entryParsed(type, text) ==
    IF type = "SYMBOL_ARRANGEMENT" THEN parse(removeWhitespace(text)) ELSE parse(text)

\* entry k accepts the answer: equal as normalised strings, or both parse and
\* are equivalent
entryAccepts(type, text, entry) ==
    \/ normalized(type, text) = normalized(type, entry)
    \/ /\ parse(normalized(type, text)).ok
       /\ entryParsed(type, entry).ok
       /\ areEquivalent(parse(normalized(type, text)).formula,
                        entryParsed(type, entry).formula)

\* a parse raised inside the loop over the entries before the loop returned
RECURSIVE parseRaisedInLoop(_, _, _, _)
parseRaisedInLoop(type, entries, k, text) ==
    IF k > Len(entries) THEN FALSE
    ELSE IF normalized(type, text) = normalized(type, entries[k].v) THEN FALSE
    ELSE IF ~parse(normalized(type, text)).ok \/ ~entryParsed(type, entries[k].v).ok
    THEN TRUE
    ELSE IF entryAccepts(type, text, entries[k].v) THEN FALSE
    ELSE parseRaisedInLoop(type, entries, k + 1, text)

\* some step nested in the call raised
stepRaised ==
    \/ exceptionCaught(exercise, answer)
    \/ /\ FormulaListCall
       /\ parseRaisedInLoop(exercise.type, correctFormulas, 1, answer.v)

\* C3 as stated: the call returns a result, and whenever a nested parse or
\* evaluation step raised the result is isCorrect = false with score 0
C3_AnyRaisedStepGradesIncorrect ==
    Called =>
        /\ result.kind = "return"
        /\ stepRaised => (result.isCorrect = FALSE /\ result.score = Zero)

\* C3, amended: gradeSubmission returns a GradingResult for every exercise and
\* answer, and an exception that reaches the catch of gradeSubmission or of
\* gradeEquivalence gives isCorrect = false, score 0 and an error feedback (a
\* parse failure inside the loop of a formula-list grader is skipped there)
C3_CaughtErrorGradesIncorrect ==
    Called =>
        /\ result.kind = "return"
        /\ result.isCorrect \in BOOLEAN
        /\ result.feedback # ""
        /\ exceptionCaught(exercise, answer) =>
              /\ result.isCorrect = FALSE
              /\ result.score = Zero
              /\ result.feedback \in {"Error al evaluar", "Error de sintaxis"}

\* a branch threw on a content, solution or answer of the wrong shape and the
\* call still returned a result
C3_ThrowCaught ==
    /\ Called
    /\ gradeBranch(exercise, answer).kind = "throw"
    /\ result.kind = "return"
    /\ result.feedback = "Error al evaluar"

InUnitInterval(score) ==
    score.kind = "finite" /\ 0 <= score.num /\ score.num <= score.den

\* C4: the score of every returned GradingResult is a number from 0 to 1
C4_ScoreInRange == (Called /\ result.kind = "return") => InUnitInterval(result.score)

\* a MULTIPLE_CHOICE call on values of the declared types
MultipleChoiceCall ==
    /\ Called
    /\ exercise.type = "MULTIPLE_CHOICE"
    /\ ~IsNullish(exercise.content)
    /\ ~IsNullish(exercise.solution)
    /\ Prop(exercise.solution, "correctOptionIds").t = "array"
    /\ answer.t = "array"

allowMultiple == Truthy(Prop(exercise.content, "allowMultiple"))

correctOptionIds == Prop(exercise.solution, "correctOptionIds").v

distinctCorrect == {correctOptionIds[j] : j \in 1..Len(correctOptionIds)}

\* the positions of the submitted list that hold a correct id
correctPositions == {k \in 1..Len(answer.v) : answer.v[k] \in distinctCorrect}

\* score = max(0, (c - i) / t) in JavaScript arithmetic: 0 / 0 is NaN and a
\* negative number over 0 is -Infinity
IsPenalizedQuotient(score, c, i, t) ==
    IF t > 0
    THEN IF c - i <= 0 THEN score = Zero
         ELSE score.kind = "finite" /\ score.num * t = (c - i) * score.den
    ELSE IF c - i = 0 THEN score.kind = "NaN"
    ELSE IF c - i < 0 THEN score = Zero
    ELSE score.kind = "Infinity"

\* C5: with allowMultiple the score is max(0, (correctSelected -
\* incorrectSelected) / totalCorrect) and isCorrect holds iff correctSelected =
\* totalCorrect and incorrectSelected = 0
C5_MultipleSelection ==
    (MultipleChoiceCall /\ allowMultiple) =>
        LET c == Cardinality(correctPositions)
            i == Len(answer.v) - Cardinality(correctPositions)
            t == Cardinality(distinctCorrect)
        IN /\ result.kind = "return"
           /\ IsPenalizedQuotient(result.score, c, i, t)
           /\ result.isCorrect = (c = t /\ i = 0)

\* three correct options, two of them and one wrong option selected: 1/3
C5_TwoOfThreeAndOneWrong ==
    /\ MultipleChoiceCall
    /\ allowMultiple
    /\ Cardinality(distinctCorrect) = 3
    /\ Cardinality(correctPositions) = 2
    /\ Len(answer.v) = 3
    /\ result.score = Ratio(1, 3)
    /\ result.isCorrect = FALSE

submittedSet == {answer.v[k] : k \in 1..Len(answer.v)}

\* C6 as stated: without allowMultiple the answer is correct iff the set of
\* submitted ids equals the set correctOptionIds
C6_ExactSetEquality ==
    (MultipleChoiceCall /\ ~allowMultiple) =>
        /\ result.kind = "return"
        /\ result.isCorrect = (submittedSet = distinctCorrect)
        /\ result.score = IF result.isCorrect THEN One ELSE Zero

\* C6, amended: without allowMultiple the answer is correct (score 1) iff the
\* submitted list has exactly one element and that element is one of
\* correctOptionIds, and incorrect (score 0) otherwise
C6_SingleMember ==
    (MultipleChoiceCall /\ ~allowMultiple) =>
        /\ result.kind = "return"
        /\ result.isCorrect = (Len(answer.v) = 1 /\ answer.v[1] \in distinctCorrect)
        /\ result.score = IF result.isCorrect THEN One ELSE Zero

\* one of two correct options submitted and graded correct
C6_OneOfTwoAccepted ==
    /\ MultipleChoiceCall
    /\ ~allowMultiple
    /\ Cardinality(distinctCorrect) = 2
    /\ Len(answer.v) = 1
    /\ submittedSet # distinctCorrect
    /\ result.isCorrect = TRUE
    /\ result.score = One

\* an EQUIVALENCE call for which a target formula is configured
EquivalenceCall ==
    /\ Called
    /\ exercise.type = "EQUIVALENCE"
    /\ Truthy(targetFormulaStr(exercise))

\* C7: with a target configured the result is isCorrect = true with score 1 iff
\* the answer and the target both parse and are equivalent; if either fails to
\* parse it is isCorrect = false, score 0 with the syntax-error feedback
C7_EquivalenceGrading ==
    EquivalenceCall =>
        LET student == parseValue(answer)
            target == parseValue(targetFormulaStr(exercise))
        IN /\ result.kind = "return"
           /\ result.isCorrect =
                 (/\ student.ok
                  /\ target.ok
                  /\ areEquivalent(student.formula, target.formula))
           /\ result.score = IF result.isCorrect THEN One ELSE Zero
           /\ (~student.ok \/ ~target.ok) => result.feedback = "Error de sintaxis"

\* an answer written differently from the target and equivalent to it is
\* graded correct
C7_EquivalentAccepted ==
    /\ EquivalenceCall
    /\ answer.t = "string"
    /\ parse(answer.v).ok
    /\ parseValue(targetFormulaStr(exercise)).ok
    /\ parse(answer.v).formula # parseValue(targetFormulaStr(exercise)).formula
    /\ result.isCorrect = TRUE
    /\ result.score = One

\* C8: the answer is correct (score 1) iff some entry of correctFormulas equals
\* it as a normalised string or parses, as the answer does, to an equivalent
\* formula; an entry that fails to parse is skipped
C8_AnyEntryAccepts ==
    FormulaListCall =>
        /\ result.kind = "return"
        /\ result.isCorrect =
              (\E k \in 1..Len(correctFormulas) :
                  entryAccepts(exercise.type, answer.v, correctFormulas[k].v))
        /\ result.score = IF result.isCorrect THEN One ELSE Zero

\* the first entry fails to parse, the second one is written differently from
\* the answer and equivalent to it: the answer is graded correct
C8_FailedEntrySkipped ==
    /\ FormulaListCall
    /\ Len(correctFormulas) = 2
    /\ ~entryParsed(exercise.type, correctFormulas[1].v).ok
    /\ normalized(exercise.type, answer.v)
          # normalized(exercise.type, correctFormulas[1].v)
    /\ normalized(exercise.type, answer.v)
          # normalized(exercise.type, correctFormulas[2].v)
    /\ result.isCorrect = TRUE

\* a TRUTH_TABLE call on values of the declared types
TruthTableCall ==
    /\ Called
    /\ exercise.type = "TRUTH_TABLE"
    /\ ~IsNullish(exercise.content)
    /\ Prop(exercise.content, "hiddenCells").t = "array"
    /\ ~IsNullish(exercise.solution)
    /\ Prop(exercise.solution, "values").t = "object"
    /\ answer.t = "object"

hiddenCells == Prop(exercise.content, "hiddenCells").v

\* the value a table of columns holds at a cell, undefined where it holds none
valueAt(table, cell) ==
    LET column == cell.v.column.v
        row == cell.v.row.v
    IN IF column \in DOMAIN table.v /\ row < Len(table.v[column].v)
       THEN table.v[column].v[row + 1]
       ELSE Undefined

\* the hidden cells at which the submitted value equals the stored one
matchingCells ==
    {k \in 1..Len(hiddenCells) :
        valueAt(answer, hiddenCells[k])
            = valueAt(Prop(exercise.solution, "values"), hiddenCells[k])}

\* C9 as stated: for every list of hidden cells the score is the number of
\* matching cells divided by the number of hidden cells, and isCorrect holds
\* iff every hidden cell matches
C9_ScoreIsQuotient ==
    TruthTableCall =>
        /\ result.kind = "return"
        /\ result.score = Divide(Cardinality(matchingCells), Len(hiddenCells))
        /\ result.isCorrect = (Cardinality(matchingCells) = Len(hiddenCells))

\* C9, amended: for a non-empty list of hidden cells the score is the number
\* of matching cells divided by the number of hidden cells, for the empty list
\* it is 0; isCorrect holds iff every hidden cell matches
C9_ScoreIsQuotientOrZero ==
    TruthTableCall =>
        /\ result.kind = "return"
        /\ result.score.kind = "finite"
        /\ IF Len(hiddenCells) > 0
           THEN result.score.num * Len(hiddenCells)
                    = Cardinality(matchingCells) * result.score.den
           ELSE result.score = Zero
        /\ result.isCorrect = (Cardinality(matchingCells) = Len(hiddenCells))

\* one of two hidden cells matches: score 1/2, not correct
C9_HalfCredit ==
    /\ TruthTableCall
    /\ Len(hiddenCells) = 2
    /\ Cardinality(matchingCells) = 1
    /\ result.score = Ratio(1, 2)
    /\ result.isCorrect = FALSE

\* a VALIDATION call with a solution and an answer
ValidationCall ==
    /\ Called
    /\ exercise.type = "VALIDATION"
    /\ ~IsNullish(exercise.solution)
    /\ ~IsNullish(answer)

\* the stored solution with another counterexample
withCounterexample(solution, c) ==
    Obj([isValid |-> Prop(solution, "isValid"), counterexample |-> c])

\* C10: isCorrect holds (score 1) iff the submitted isValid equals the stored
\* solution.isValid, else score 0, whatever the premises, the conclusion and
\* the counterexample of the exercise are
C10_StoredVerdictOnly ==
    ValidationCall =>
        /\ result.kind = "return"
        /\ result.isCorrect =
              (Prop(answer, "isValid") = Prop(exercise.solution, "isValid"))
        /\ result.score = IF result.isCorrect THEN One ELSE Zero
        /\ \A content \in ValidationContents \cup Malformed,
              c \in {Undefined, Counterexample} :
              LET other == gradeSubmission(
                               Exercise("VALIDATION", exercise.formula, content,
                                        withCounterexample(exercise.solution, c)),
                               answer)
              IN other.isCorrect = result.isCorrect /\ other.score = result.score

\* the argument from two premises to the conclusion is valid
entails(content) ==
    areEquivalent(
        Binary("IMPLIES",
               Binary("AND", parse(content.v.premises.v[1].v).formula,
                             parse(content.v.premises.v[2].v).formula),
               parse(content.v.conclusion.v).formula),
        Binary("OR", Atom(<<"P">>), Not(Atom(<<"P">>))))

\* an invalid argument stored as valid: the student who answers "valid" is
\* graded correct
C10_StoredVerdictWins ==
    /\ ValidationCall
    /\ exercise.content.t = "object"
    /\ "premises" \in DOMAIN exercise.content.v
    /\ Len(exercise.content.v.premises.v) = 2
    /\ ~entails(exercise.content)
    /\ Prop(exercise.solution, "isValid") = Bool(TRUE)
    /\ Prop(answer, "isValid") = Bool(TRUE)
    /\ result.isCorrect = TRUE

(* Properties of the truth table *)

\* the names of the atoms of f
RECURSIVE atomNames(_)
atomNames(f) ==
    IF f.type = "ATOM" THEN {f.value}
    ELSE IF f.type = "NOT" THEN atomNames(f.operand)
    ELSE atomNames(f.left) \cup atomNames(f.right)

\* the number of atom occurrences of f
RECURSIVE atomOccurrences(_)
atomOccurrences(f) ==
    CASE f.type = "ATOM" -> 1
      [] f.type = "NOT" -> atomOccurrences(f.operand)
      [] f.type = "BINARY" -> atomOccurrences(f.left) + atomOccurrences(f.right)

\* C11: generateTruthTable returns the variables sorted, and row i gives
\* variable j the value true iff bit (n-1-j) of (2^n - 1 - i) is 1: row 0 is
\* all-true, the last row all-false, every assignment appears exactly once
C11_RowOrdering ==
    out.op = "generateTruthTable" =>
        LET variables == out.table.variables
            rows == out.table.rows
            n == Len(out.table.variables)
        IN /\ {variables[j] : j \in 1..n} = atomNames(formula)
           /\ \A j, k \in 1..n : j < k => StringLess(variables[j], variables[k])
           /\ \A i \in 0..(Len(rows) - 1), j \in 0..(n - 1) :
                 rows[i + 1].assignment[variables[j + 1]]
                     = ((((2^n - 1 - i) \div (2^(n - 1 - j))) % 2) = 1)
           /\ \A j \in 1..n : rows[1].assignment[variables[j]] = TRUE
           /\ \A j \in 1..n : rows[Len(rows)].assignment[variables[j]] = FALSE
           /\ \A a \in [atomNames(formula) -> BOOLEAN] :
                 Cardinality({i \in 1..Len(rows) : rows[i].assignment = a}) = 1

\* a table over three variables whose first occurrences are not in sorted
\* order; its second row makes only the last variable false
C11_ThreeVariablesSorted ==
    /\ out.op = "generateTruthTable"
    /\ formula.type = "BINARY"
    /\ formula.left = Atom(<<"R">>)
    /\ out.table.variables = <<<<"P">>, <<"Q">>, <<"R">>>>
    /\ out.table.rows[2].assignment[<<"P">>] = TRUE
    /\ out.table.rows[2].assignment[<<"Q">>] = TRUE
    /\ out.table.rows[2].assignment[<<"R">>] = FALSE

\* C12: the table of f has exactly 2^n rows, n the number of distinct atom
\* names of f, and the result of each row is evaluate(f, row.assignment)
C12_TableSize ==
    out.op = "generateTruthTable" =>
        /\ Len(out.table.rows) = 2^Cardinality(atomNames(formula))
        /\ \A i \in 1..Len(out.table.rows) :
              out.table.rows[i].result
                  = evaluate(formula, out.table.rows[i].assignment)

\* a formula in which a name occurs more than once: 8 rows for 3 names
C12_RepeatedNamesCountedOnce ==
    /\ out.op = "generateTruthTable"
    /\ Cardinality(atomNames(formula)) = 3
    /\ atomOccurrences(formula) > 3
    /\ Len(out.table.rows) = 8
    /\ \E i \in 1..8 : out.table.rows[i].result = FALSE

(* Properties of areEquivalent *)

\* f1 and f2 have the same value under every assignment of the union of their
\* variables
sameUnderEveryAssignment(f1, f2) ==
    \A a \in [atomNames(f1) \cup atomNames(f2) -> BOOLEAN] :
        evaluate(f1, a) = evaluate(f2, a)

\* C13: areEquivalent(f1, f2) holds iff f1 and f2 have the same value under
\* every assignment of the union of their variables; it is the test of
\* f1 IFF f2 for TAUTOLOGY. P -> Q and ~P | Q are equivalent, P and P & P are
\* equivalent, P and P & Q are not
C13_EquivalenceIsSameValues ==
    out.op = "areEquivalent" =>
        /\ out.value = sameUnderEveryAssignment(formula, out.other)
        /\ out.value = (classifyFormula(Binary("IFF", formula, out.other)) = "TAUTOLOGY")
        /\ (/\ formula = Binary("IMPLIES", Atom(<<"P">>), Atom(<<"Q">>))
            /\ out.other = Binary("OR", Not(Atom(<<"P">>)), Atom(<<"Q">>)))
              => out.value = TRUE
        /\ (/\ formula = Atom(<<"P">>)
            /\ out.other = Binary("AND", Atom(<<"P">>), Atom(<<"P">>)))
              => out.value = TRUE
        /\ (/\ formula = Atom(<<"P">>)
            /\ out.other = Binary("AND", Atom(<<"P">>), Atom(<<"Q">>)))
              => out.value = FALSE

\* two formulas over different variables found equivalent
C13_DifferentVariablesEquivalent ==
    /\ out.op = "areEquivalent"
    /\ atomNames(formula) = {<<"P">>, <<"Q">>}
    /\ atomNames(out.other) = {<<"P">>, <<"R">>}
    /\ out.value = TRUE

\* C14: areEquivalent(f1, f2) = areEquivalent(f2, f1)
C14_EquivalenceSymmetric ==
    out.op = "areEquivalent" => out.value = out.swapped

\* the first formula implies the second and not the other way round: not
\* equivalent in either order
C14_OneWayImplication ==
    /\ out.op = "areEquivalent"
    /\ isTautology(Binary("IMPLIES", formula, out.other))
    /\ ~isTautology(Binary("IMPLIES", out.other, formula))
    /\ out.value = FALSE
    /\ out.swapped = FALSE

(* C15: the normal forms are idempotent *)

\* C15: once toNNF has been applied, applying it to its own result returns
\* the same tree, and likewise toCNF applied to its own result; the comparison
\* is structural (equal trees, not merely equivalent formulas)
C15_NormalFormsIdempotent ==
    out.op \in {"toNNFAgain", "toCNFAgain"} => out.again = out.formula

\* the negated biconditional ~(A <-> B): its negation normal form is a
\* disjunction of two conjunctions, so the first toCNF has to distribute twice,
\* and the second toCNF finds nothing left to do
C15_DistributedTwiceThenStable ==
    /\ out.op = "toCNFAgain"
    /\ formula.type = "NOT"
    /\ formula.operand.type = "BINARY"
    /\ formula.operand.operator = "IFF"
    /\ toNNF(formula).operator = "OR"
    /\ out.formula.operator = "AND"
    /\ out.formula.left.operator = "AND"
    /\ out.again = out.formula

(* C16: associativity of the binary connectives *)

\* the text  A o B o C  and the text  A o B o C o D, written without parentheses
Chain3(o) == <<"A">> \o asciiSymbol(o) \o <<"B">> \o asciiSymbol(o) \o <<"C">>

Chain4(o) == Chain3(o) \o asciiSymbol(o) \o <<"D">>

LeftNested3(o) ==
    Binary(o, Binary(o, Atom(<<"A">>), Atom(<<"B">>)), Atom(<<"C">>))

RightNested3(o) ==
    Binary(o, Atom(<<"A">>), Binary(o, Atom(<<"B">>), Atom(<<"C">>)))

LeftNested4(o) == Binary(o, LeftNested3(o), Atom(<<"D">>))

RightNested4(o) ==
    Binary(o, Atom(<<"A">>),
           Binary(o, Atom(<<"B">>),
                  Binary(o, Atom(<<"C">>), Atom(<<"D">>))))

\* C16: A -> B -> C parses as A -> (B -> C), and for each of IFF, OR and AND
\* A op B op C parses as (A op B) op C; the same nesting continues with a
\* fourth operand
C16_Associativity ==
    \A o \in Connective :
        /\ typed = Given(Chain3(o)) =>
              formula = IF o = "IMPLIES" THEN RightNested3(o) ELSE LeftNested3(o)
        /\ typed = Given(Chain4(o)) =>
              formula = IF o = "IMPLIES" THEN RightNested4(o) ELSE LeftNested4(o)

\* A -> B -> C has been parsed, and the tree has the second implication as the
\* right operand of the first
C16_ImplicationChainParsed ==
    /\ typed = Given(<<"A", "-", ">", "B", "-", ">", "C">>)
    /\ formula # NoFormula
    /\ formula.left = Atom(<<"A">>)
    /\ formula.right = Binary("IMPLIES", Atom(<<"B">>), Atom(<<"C">>))

(* C17: precedence of the connectives *)

\* binding strength as the claim orders it: NOT > AND > OR > IMPLIES > IFF
bindingStrength(o) ==
    CASE o = "NOT" -> 4
      [] o = "AND" -> 3
      [] o = "OR" -> 2
      [] o = "IMPLIES" -> 1
      [] o = "IFF" -> 0

\* the text  A o1 B o2 C  without parentheses
Flat3(o1, o2) ==
    <<"A">> \o asciiSymbol(o1) \o <<"B">> \o asciiSymbol(o2) \o <<"C">>

\* the tree the precedence order asks for when the two connectives differ
TighterFirst(o1, o2) ==
    IF bindingStrength(o1) > bindingStrength(o2)
    THEN Binary(o2, Binary(o1, Atom(<<"A">>), Atom(<<"B">>)), Atom(<<"C">>))
    ELSE Binary(o1, Atom(<<"A">>), Binary(o2, Atom(<<"B">>), Atom(<<"C">>)))

hasParenthesis(text) == \E i \in 1..Len(text) : text[i] = "("

\* no operand of a node is a binary connective that binds more loosely than
\* the node itself; an operand of equal strength sits on the side the
\* associativity puts it
RECURSIVE respectsPrecedence(_)
respectsPrecedence(f) ==
    CASE f.type = "ATOM" -> TRUE
      [] f.type = "NOT" -> f.operand.type # "BINARY" /\ respectsPrecedence(f.operand)
      [] f.type = "BINARY" ->
            /\ respectsPrecedence(f.left)
            /\ respectsPrecedence(f.right)
            /\ f.left.type = "BINARY" =>
                  \/ bindingStrength(f.left.operator) > bindingStrength(f.operator)
                  \/ f.left.operator = f.operator /\ f.operator # "IMPLIES"
            /\ f.right.type = "BINARY" =>
                  \/ bindingStrength(f.right.operator) > bindingStrength(f.operator)
                  \/ f.right.operator = f.operator /\ f.operator = "IMPLIES"

\* C17: binding strength is NOT > AND > OR > IMPLIES > IFF. In the tree of a
\* text without parentheses no operand of a tighter connective is a looser
\* binary connective: A o1 B o2 C groups around the tighter of the two,
\* ~A o B negates A alone, A o ~~B negates B alone; and a parenthesised
\* subexpression is read from the IFF level again, whatever surrounds it
C17_Precedence ==
    /\ typed.given /\ formula # NoFormula /\ ~hasParenthesis(typed.text)
          => respectsPrecedence(formula)
    /\ \A o1, o2 \in Connective :
          o1 # o2 /\ typed = Given(Flat3(o1, o2)) => formula = TighterFirst(o1, o2)
    /\ \A o \in Connective :
          /\ typed = Given(<<"~", "A">> \o asciiSymbol(o) \o <<"B">>)
                => formula = Binary(o, Not(Atom(<<"A">>)), Atom(<<"B">>))
          /\ typed = Given(<<"A">> \o asciiSymbol(o) \o <<"~", "~", "B">>)
                => formula = Binary(o, Atom(<<"A">>), Not(Not(Atom(<<"B">>))))
    /\ typed = Given(<<"(", "A", "<", "-", ">", "B", ")", "&", "C">>)
          => formula = Binary("AND", Binary("IFF", Atom(<<"A">>), Atom(<<"B">>)),
                              Atom(<<"C">>))
    /\ typed = Given(<<"A", "&", "(", "B", "<", "-", ">", "C", ")">>)
          => formula = Binary("AND", Atom(<<"A">>),
                              Binary("IFF", Atom(<<"B">>), Atom(<<"C">>)))
    /\ typed = Given(<<"~", "(", "A", "-", ">", "B", ")", "&", "C">>)
          => formula = Binary("AND",
                              Not(Binary("IMPLIES", Atom(<<"A">>), Atom(<<"B">>))),
                              Atom(<<"C">>))

\* A <-> B -> C has been parsed: the implication is the right operand of the
\* biconditional
C17_LooserConnectiveOnTop ==
    /\ typed = Given(<<"A", "<", "-", ">", "B", "-", ">", "C">>)
    /\ formula # NoFormula
    /\ formula.operator = "IFF"
    /\ formula.right = Binary("IMPLIES", Atom(<<"B">>), Atom(<<"C">>))

(* C18: parse failure on malformed input *)

TokenTypes ==
    {"ATOM", "NOT", "AND", "OR", "IMPLIES", "IFF", "LPAREN", "RPAREN", "EOF"}

\* A recogniser of the well-formed texts that does not build tokens or trees:
\* it reads the characters from offset i with two facts in hand, whether an
\* operand is due and how many parentheses are open.
RECURSIVE scanFrom(_, _, _, _)
scanFrom(text, i, operandDue, open) ==
    IF i >= Len(text) THEN ~operandDue /\ open = 0
    ELSE LET c == text[i + 1]
             next == IF i + 1 < Len(text) THEN text[i + 2] ELSE "none"
             afterNext == IF i + 2 < Len(text) THEN text[i + 3] ELSE "none"
         IN CASE c \in {" ", "\t", "\n", "\r"} -> scanFrom(text, i + 1, operandDue, open)
              [] c \in Letters ->
                    operandDue /\ scanFrom(text, wordEnd(text, i), FALSE, open)
              [] c = "(" -> operandDue /\ scanFrom(text, i + 1, TRUE, open + 1)
              [] c = ")" ->
                    ~operandDue /\ open > 0 /\ scanFrom(text, i + 1, FALSE, open - 1)
              [] c \in {"~", "!", "u00AC"} ->
                    operandDue /\ scanFrom(text, i + 1, TRUE, open)
              [] c \in {"&", "^", "u2227", "|", "u2228", "u2192", "u2194"} ->
                    ~operandDue /\ scanFrom(text, i + 1, TRUE, open)
              [] c \in {"-", "="} ->
                    ~operandDue /\ next = ">" /\ scanFrom(text, i + 2, TRUE, open)
              [] c = "<" ->
                    /\ ~operandDue
                    /\ next \in {"-", "="}
                    /\ afterNext = ">"
                    /\ scanFrom(text, i + 3, TRUE, open)
              [] OTHER -> FALSE

wellFormed(text) == scanFrom(text, 0, TRUE, 0)

\* the type of the token that starts at an offset of the text, read off the
\* character there; the end of the text is the EOF token
typeAt(text, at) ==
    IF at = Len(text) THEN "EOF"
    ELSE LET c == text[at + 1]
         IN CASE c \in Letters -> "ATOM"
              [] c = "(" -> "LPAREN"
              [] c = ")" -> "RPAREN"
              [] c \in {"~", "!", "u00AC"} -> "NOT"
              [] c \in {"&", "^", "u2227"} -> "AND"
              [] c \in {"|", "u2228"} -> "OR"
              [] c \in {"-", "=", "u2192"} -> "IMPLIES"
              [] c \in {"<", "u2194"} -> "IFF"
              [] OTHER -> "no token"

\* the error names a token: its type and the offset where it starts
carriesTokenAndOffset(error, text) ==
    /\ "found" \in DOMAIN error
    /\ error.found \in TokenTypes
    /\ error.at \in 0..Len(text)
    /\ error.found = typeAt(text, error.at)

\* the error names a character that starts no token, and its offset
carriesCharAndOffset(error, text) ==
    /\ error.kind = "Unknown char"
    /\ error.at \in 0..(Len(text) - 1)
    /\ error.char = text[error.at + 1]

ParserErrorKinds ==
    {"Unknown char", "Expected", "Unexpected token at atom expectation",
     "Unexpected token at position"}

\* C18 as stated: on every malformed input parse returns no formula, and the
\* error it raises carries the offending token's type and character offset
C18_FailureCarriesTokenType ==
    /\ typed.given /\ ~wellFormed(typed.text) => formula = NoFormula
    /\ out.op = "thrown" => carriesTokenAndOffset(out.error, typed.text)

\* C18 (amended): on every malformed input parse returns no formula and raises
\* one of the parser's own errors, never another kind. An error raised on a
\* token (unexpected token, missing closing parenthesis, trailing tokens,
\* truncated input) carries that token's type and character offset, EOF at
\* the length of the text for "P ->"; an error raised on a character that
\* starts no token carries the character and its offset instead of a type.
C18_ParseFailure ==
    /\ \A text \in MalformedTexts : ~wellFormed(text)
    /\ typed.given /\ ~wellFormed(typed.text) =>
          formula = NoFormula /\ out.op \in {"thrown", "respelled"}
    /\ out.op = "thrown" =>
          /\ out.error.kind \in ParserErrorKinds
          /\ IF out.error.kind = "Unknown char"
             THEN carriesCharAndOffset(out.error, typed.text)
             ELSE carriesTokenAndOffset(out.error, typed.text)
    /\ typed = Given(<<"P", " ", "-", ">">>) /\ out.op = "thrown" =>
          out.error = [kind |-> "Unexpected token at atom expectation",
                       found |-> "EOF", at |-> 4]

\* "P #" has been parsed: "#" starts no token, and the error names the
\* character and its offset 2
C18_UnknownCharacterReported ==
    /\ typed = Given(<<"P", " ", "#">>)
    /\ ~wellFormed(typed.text)
    /\ formula = NoFormula
    /\ out = [op |-> "thrown",
              error |-> [kind |-> "Unknown char", char |-> "#", at |-> 2]]

(* C19: the spellings of a connective are interchangeable *)

connectiveTokens(tokens) ==
    {[at |-> tokens[k].pos, connective |-> tokens[k].type] :
        k \in {j \in 1..Len(tokens) :
                  tokens[j].type \in {"NOT", "AND", "OR", "IMPLIES", "IFF"}}}

\* C19: an occurrence of a connective spelling is a connective token as the
\* tokenizer delimits it (the "->" inside "<->" belongs to the spelling of
\* IFF). Writing one occurrence in another accepted spelling of the same
\* connective gives a text whose parse returns the identical tree when the
\* parse of the original returned one, and fails when the original failed.
C19_SpellingsInterchangeable ==
    /\ out.op = "respelled" =>
          /\ out.text # typed.text
          /\ IF formula = NoFormula
             THEN ~out.parsed.ok
             ELSE out.parsed.ok /\ out.parsed.formula = formula
    /\ typed.given /\ tokenize(typed.text).ok =>
          connectiveTokens(tokenize(typed.text).tokens)
             = {[at |-> occ.at, connective |-> occ.connective] :
                   occ \in occurrencesFrom(typed.text, 0)}

\* "P -> (Q & R)" typed again with the arrow as the single character U+2192:
\* the same tree
C19_UnicodeArrowSameTree ==
    /\ typed = Given(<<"P", " ", "-", ">", " ", "(", "Q", " ", "&", " ", "R", ")">>)
    /\ out.op = "respelled"
    /\ out.text = <<"P", " ", "u2192", " ", "(", "Q", " ", "&", " ", "R", ")">>
    /\ out.parsed.ok
    /\ out.parsed.formula = formula
    /\ formula.operator = "IMPLIES"

(* C20: classification of a formula *)

trueUnderEvery(f) == \A a \in [atomNames(f) -> BOOLEAN] : evaluate(f, a)

falseUnderEvery(f) == \A a \in [atomNames(f) -> BOOLEAN] : ~evaluate(f, a)

\* C20: classifyFormula(f) is TAUTOLOGY iff f is true under every assignment,
\* CONTRADICTION iff f is false under every assignment, CONTINGENT otherwise,
\* and so exactly one class applies. P | ~P is TAUTOLOGY, P & ~P is
\* CONTRADICTION, P -> (Q & R) is CONTINGENT and its table has 8 rows over
\* the variables P, Q, R
C20_Classification ==
    out.op = "classifyFormula" =>
        /\ out.class \in {"TAUTOLOGY", "CONTRADICTION", "CONTINGENT"}
        /\ out.class = "TAUTOLOGY" <=> trueUnderEvery(formula)
        /\ out.class = "CONTRADICTION" <=> falseUnderEvery(formula)
        /\ out.class = "CONTINGENT" <=>
              ~trueUnderEvery(formula) /\ ~falseUnderEvery(formula)
        /\ ~(trueUnderEvery(formula) /\ falseUnderEvery(formula))
        /\ typed = Given(<<"P", " ", "|", " ", "~", "P">>) => out.class = "TAUTOLOGY"
        /\ typed = Given(<<"P", " ", "&", " ", "~", "P">>) => out.class = "CONTRADICTION"
        /\ typed = Given(<<"P", " ", "-", ">", " ", "(", "Q", " ", "&", " ", "R", ")">>) =>
              /\ out.class = "CONTINGENT"
              /\ generateTruthTable(formula).variables = <<<<"P">>, <<"Q">>, <<"R">>>>
              /\ Len(generateTruthTable(formula).rows) = 8

\* P -> (Q & R) has been parsed and classified: CONTINGENT, three variables
C20_ContingentOverThreeVariables ==
    /\ typed = Given(<<"P", " ", "-", ">", " ", "(", "Q", " ", "&", " ", "R", ")">>)
    /\ formula = Binary("IMPLIES", Atom(<<"P">>),
                        Binary("AND", Atom(<<"Q">>), Atom(<<"R">>)))
    /\ out = [op |-> "classifyFormula", class |-> "CONTINGENT"]
    /\ Len(generateTruthTable(formula).rows) = 8

(* C21: the submission endpoint and the canonical equivalence test *)

\* the endpoint parsed both texts and compared them
Compared ==
    /\ result # Idle
    /\ result.status = 201
    /\ parse(trim(answer.answer.text)).ok
    /\ parse(exercise.formula).ok

\* C21: for every pair of parseable student and target formulas the verdict
\* of the endpoint's truth-table comparison equals areEquivalent(student,
\* target), also when the two formulas mention different sets of variables
C21_EndpointVerdictIsAreEquivalent ==
    Compared =>
        result.body.isCorrect
           = areEquivalent(parse(trim(answer.answer.text)).formula,
                           parse(exercise.formula).formula)

(* C22: parsing does not depend on the calls made before *)

\* C22: whatever calls the instance has served, successful or failed, a call
\* on it returns what a fresh instance returns for the same text: the same
\* tree, or the same failure
C22_HistoryIndependent ==
    out.op = "parser.parse" => out.outcome = parseBy(NewParser, typed.text).outcome

\* a call that returned a formula on an instance whose previous call failed in
\* the grammar, past the first token, on a different token list
C22_SuccessAfterFailure ==
    /\ out.op = "parser.parse"
    /\ out.before.pos > 0
    /\ out.before.tokens # parser.tokens
    /\ ~parseEnd(out.before.tokens, parseIff(out.before.tokens, 0)).ok
    /\ out.outcome.ok
    /\ out.outcome.formula.type = "BINARY"

(* C23: evaluate over partial assignments *)

\* the value the claim gives: an atom the assignment does not hold is false
RECURSIVE valueWithMissingFalse(_, _)
valueWithMissingFalse(f, assignment) ==
    CASE f.type = "ATOM" -> f.value \in DOMAIN assignment /\ assignment[f.value]
      [] f.type = "NOT" -> ~valueWithMissingFalse(f.operand, assignment)
      [] f.type = "BINARY" ->
            LET left == valueWithMissingFalse(f.left, assignment)
                right == valueWithMissingFalse(f.right, assignment)
            IN CASE f.operator = "AND" -> left /\ right
                 [] f.operator = "OR" -> left \/ right
                 [] f.operator = "IMPLIES" -> ~left \/ right
                 [] f.operator = "IFF" -> left <=> right

\* C23: evaluate is total over any, possibly partial, assignment: an atom
\* whose name is absent from the assignment evaluates to false, NOT inverts,
\* AND is true iff both operands are, OR iff at least one is, IMPLIES iff the
\* left is false or the right is true, IFF iff both have the same value
C23_MissingAtomIsFalse ==
    out.op = "evaluate" =>
        /\ out.value \in BOOLEAN
        /\ out.value = valueWithMissingFalse(formula, out.assignment)

(* C24: the shape of a negation normal form *)

\* no IMPLIES, no IFF, and every NOT has an atom as its operand
RECURSIVE inNNF(_)
inNNF(f) ==
    CASE f.type = "ATOM" -> TRUE
      [] f.type = "NOT" -> f.operand.type = "ATOM"
      [] f.type = "BINARY" ->
            f.operator \in {"AND", "OR"} /\ inNNF(f.left) /\ inNNF(f.right)

\* C24: toNNF(f) contains no IMPLIES and no IFF node, and every NOT node in it
\* has an atom as its operand
C24_NNFShape ==
    out.op = "toNNF" => inNNF(out.formula)

\* the negation of a biconditional: both rewriting passes had work to do
C24_NegatedBiconditionalInNNF ==
    /\ out.op = "toNNF"
    /\ formula.type = "NOT"
    /\ formula.operand.type = "BINARY"
    /\ formula.operand.operator = "IFF"
    /\ ~inNNF(formula)
    /\ inNNF(out.formula)
    /\ out.formula.type = "BINARY"

(* C25: the shape of the conjunctive and disjunctive normal forms *)

isLiteral(f) == f.type = "ATOM" \/ (f.type = "NOT" /\ f.operand.type = "ATOM")

\* a literal, or literals joined by the one connective o
RECURSIVE joinedLiterals(_, _)
joinedLiterals(f, o) ==
    \/ isLiteral(f)
    \/ /\ f.type = "BINARY"
       /\ f.operator = o
       /\ joinedLiterals(f.left, o)
       /\ joinedLiterals(f.right, o)

\* groups of literals joined by inner, the groups joined by outer: no outer
\* node beneath an inner node
RECURSIVE normalForm(_, _, _)
normalForm(f, outer, inner) ==
    \/ joinedLiterals(f, inner)
    \/ /\ f.type = "BINARY"
       /\ f.operator = outer
       /\ normalForm(f.left, outer, inner)
       /\ normalForm(f.right, outer, inner)

\* the nodes of f, f included
RECURSIVE subformulas(_)
subformulas(f) ==
    {f} \cup (CASE f.type = "ATOM" -> {}
                [] f.type = "NOT" -> subformulas(f.operand)
                [] f.type = "BINARY" -> subformulas(f.left) \cup subformulas(f.right))

\* C25: toCNF(f) is a conjunction of disjunctions of literals (no AND beneath
\* an OR, negations only on atoms), toDNF(f) is a disjunction of conjunctions
\* of literals (no OR beneath an AND), and no distribution step applies to
\* any node of either result
C25_NormalFormShape ==
    /\ out.op = "toCNF" =>
          /\ normalForm(out.formula, "AND", "OR")
          /\ \A g \in subformulas(out.formula) : distributeOrOverAnd(g) = g
    /\ out.op = "toDNF" =>
          /\ normalForm(out.formula, "OR", "AND")
          /\ \A g \in subformulas(out.formula) : distributeAndOverOr(g) = g

\* (P | Q) & (R | S) in disjunctive normal form: each distribution step
\* exposed another one
C25_DistributionNested ==
    /\ typed = Given(<<"(", "P", "|", "Q", ")", "&", "(", "R", "|", "S", ")">>)
    /\ out.op = "toDNF"
    /\ formula.operator = "AND"
    /\ out.formula.operator = "OR"
    /\ out.formula.left.operator = "OR"
    /\ normalForm(out.formula, "OR", "AND")
    /\ Cardinality({g \in subformulas(out.formula) :
                       g.type = "BINARY" /\ g.operator = "AND"}) = 4

(* C26: the rewriting passes terminate *)

\* C26: every chain of calls that starts at toNNF, toCNF or toDNF on a finite
\* formula and goes from a call to one of the calls it makes reaches a call
\* that makes none: no pass calls itself for ever, so each returns
C26_PassesTerminate ==
    <>(out.op = "call" /\ callsOf(out) = {})

\* the distribution called on a disjunction that its caller built, which
\* itself has to distribute again
C26_DistributionCallsItself ==
    /\ out.op = "call"
    /\ out.fn = "distributeOrOverAnd"
    /\ \E call \in callsOf(out) : callsOf(call) # {}

(* C27: the verdict and the score of a result agree *)

\* C27: in every GradingResult gradeSubmission returns, isCorrect is true iff
\* the score equals 1
C27_CorrectIffFullScore ==
    (Called /\ result.kind = "return") => (result.isCorrect <=> result.score = One)

(* C28: which hidden cells count as correct *)

\* the hidden cells for which the student supplied a boolean that equals a
\* boolean stored in solution.values
answeredAsStored ==
    {k \in 1..Len(hiddenCells) :
        /\ valueAt(answer, hiddenCells[k]).t = "boolean"
        /\ valueAt(Prop(exercise.solution, "values"), hiddenCells[k]).t = "boolean"
        /\ valueAt(answer, hiddenCells[k])
              = valueAt(Prop(exercise.solution, "values"), hiddenCells[k])}

\* C28: a hidden cell counts as correct only if the student supplied a boolean
\* for it and it equals a boolean stored in solution.values there; a cell the
\* student left unanswered, or one for which the solution stores no value, is
\* never counted
C28_OnlyAnsweredCellsCount ==
    TruthTableCall /\ result.kind = "return" =>
        result.details.correctCells = Cardinality(answeredAsStored)

\* C29: an exercise whose type is PROOF, or any tag outside the eight handled
\* ones, is rejected by gradeSubmission: isCorrect false, score 0 and the
\* "unsupported type" feedback, whatever the answer, content and solution are.
C29_UnsupportedTypeRejected ==
    (out.op = "gradeSubmission" /\ exercise.type \notin HandledTypes) =>
        /\ result.kind = "return"
        /\ result.isCorrect = FALSE
        /\ "score" \in DOMAIN result
        /\ result.score = Zero
        /\ result.feedback = "Tipo de ejercicio no soportado"

\* C29, the dispatcher of analyzer.ts alone: its default branch rejects
C29_AnalyzerRejects ==
    (out.op = "gradeSubmission" /\ out.from = "analyzer") =>
        result = Graded(FALSE, Zero, "Tipo de ejercicio no soportado", NoDetails)

\* C29: a PROOF exercise with an equivalent answer was graded correct by the
\* dispatcher of grader.ts
C29_ProofGradedAsEquivalence ==
    /\ out.op = "gradeSubmission"
    /\ out.from = "grader"
    /\ exercise.type = "PROOF"
    /\ result.isCorrect

(* C30: NORMAL_FORM grading and the form asked for *)

NormalFormCall == FormulaListCall /\ exercise.type = "NORMAL_FORM"

\* the same call with another content
regraded(content) == gradeSubmission([exercise EXCEPT !.content = content], answer)

\* f is syntactically in the form named
inForm(f, form) ==
    CASE form = "CNF" -> normalForm(f, "AND", "OR")
      [] form = "DNF" -> normalForm(f, "OR", "AND")
      [] form = "NNF" -> inNNF(f)

\* the answer parses to a formula equivalent to an accepted formula
equivalentToAccepted ==
    \E k \in 1..Len(correctFormulas) :
        /\ parse(trim(answer.v)).ok
        /\ parse(correctFormulas[k].v).ok
        /\ areEquivalent(parse(trim(answer.v)).formula, parse(correctFormulas[k].v).formula)

\* C30: for a fixed solution.correctFormulas and a fixed answer, isCorrect and
\* score of a NORMAL_FORM exercise are the same for targetForm CNF, DNF and
\* NNF, and an answer equivalent to an accepted formula is graded correct,
\* in the requested form or not.
C30_FormNotChecked ==
    NormalFormCall =>
        /\ result.kind = "return"
        /\ \A content \in NormalFormContents :
              /\ regraded(content).kind = "return"
              /\ regraded(content).isCorrect = result.isCorrect
              /\ regraded(content).score = result.score
        /\ equivalentToAccepted => (result.isCorrect /\ result.score = One)

\* an answer with an implication, in none of the three forms, equivalent to the
\* accepted disjunction and written differently: graded correct for DNF
C30_ImplicationAcceptedAsDNF ==
    /\ NormalFormCall
    /\ targetFormText(exercise.content) = "DNF"
    /\ equivalentToAccepted
    /\ \A k \in 1..Len(correctFormulas) : trim(answer.v) # trim(correctFormulas[k].v)
    /\ \A form \in {"CNF", "DNF", "NNF"} : ~inForm(parse(trim(answer.v)).formula, form)
    /\ result.isCorrect
    /\ result.feedback = "Correcto! Es valida tu DNF"
====
